---- MODULE Spec2Model ----
(***************************************************************************)
(* Model of the dataset pages of the Filipino emigrants dashboard          *)
(* (BarChartPage and its siblings): the document store, the in-memory      *)
(* list each page instance holds, the add / edit / save / cancel / delete  *)
(* handlers, the CSV import loop and the fetchData reload.                  *)
(*                                                                         *)
(* Every `await` of a handler is a point where other events interleave: a  *)
(* handler that is waiting for the store is a task with a program counter. *)
(* A store call is first in flight ("write" / "fetch"), is then processed  *)
(* by the store (StoreStep), and its result is delivered to the handler's  *)
(* continuation in a later step (Continue).                                *)
(*                                                                         *)
(* The LSTM forecasting panel (LSTMForecast, lstmModel) is modelled the    *)
(* same way: its handlers are jobs, the model kept in IndexedDB and the    *)
(* metadata kept in localStorage are the browser's state.                  *)
(***************************************************************************)
EXTENDS Integers, Sequences, FiniteSets, TLC

\* ------------------------------------------------------------------ bounds
NPages == 2        \* page instances (browser tabs) sharing one store
MaxTasks == 2      \* async handlers in flight at once, over all pages
MaxDocs == 4       \* document ids the store ever assigns
MaxTimers == 2     \* pending message-clear timers per page
MaxClicks == 3     \* user events (clicks, keystrokes, file picks) per page in one run
MaxDeletes == 2    \* Delete clicks per client in the two-client runs
MaxJobs == 2       \* async handlers of the forecasting panel in flight at once
MaxTrainings == 2  \* trainings started in one run
MaxPresses == 3    \* user events on the forecasting panel in one run
MaxReports == 1    \* progress reports (onEpochEnd) shown during one training

Pages == 1..NPages
TaskIds == 1..MaxTasks
NoId == 0          \* editingId === null

\* ------------------------------------------------------------ record shape
\* BarChartPage: civilStatusFields (three of the six, one of them camel-cased)
\* and allFormFields
civilStatusFields == {"single", "married", "notReported"}
allFormFields == {"year"} \cup civilStatusFields

\* `undefined` / NaN as numbers never written by a form or a file
NaN == -1000000

\* The numbers the model's forms, files and documents range over
NumVals == {-5, 0, 5, 50, 60, 80, 100, 2019, 2020, 2021}

\* String(n) for a number, and the texts a number input or a CSV cell can hold
String(n) == ToString(n)
NumTexts == {String(n) : n \in NumVals}

\* r[f] of a JS object: present or undefined
Has(r, f) == f \in DOMAIN r

\* Number(text): "" is 0, a numeric text its number, anything else NaN
Number(s) ==
  IF s = "" THEN 0
  ELSE IF s \in NumTexts THEN CHOOSE n \in NumVals : String(n) = s
  ELSE NaN

\* Number(form[f]) of a form object: Number(undefined) is NaN
NumberOfField(form, f) == IF Has(form, f) THEN Number(form[f]) ELSE NaN

\* Number(form[f]) || 0
NumberOrZero(form, f) ==
  LET n == NumberOfField(form, f) IN IF n = NaN THEN 0 ELSE n

\* String(record[f] || "")
StringOrEmpty(r, f) == IF Has(r, f) /\ r[f] # 0 /\ r[f] # NaN THEN String(r[f]) ELSE ""

\* record[f] || 0
ValueOrZero(r, f) == IF Has(r, f) /\ r[f] # NaN THEN r[f] ELSE 0

\* handleSave / handleAdd: the record built from a form
RecordFromForm(form) ==
  [f \in allFormFields |->
     IF f = "year" THEN NumberOfField(form, "year") ELSE NumberOrZero(form, f)]

\* variant: the form seeded from the category fields only (year forgotten)
FormFromRecordNoYear(r) == [f \in civilStatusFields |-> StringOrEmpty(r, f)]

\* handleEdit: the text form seeded from a record
FormFromRecord(r) == [f \in allFormFields |-> StringOrEmpty(r, f)]

EmptyForm == <<>>                                  \* {}
BlankForm == [f \in allFormFields |-> ""]          \* the add form's initial value

\* ------------------------------------------------------- CSV row conversion
\* field.charAt(0).toUpperCase() + field.slice(1)
Capitalized(f) ==
  IF f = "single" THEN "Single"
  ELSE IF f = "married" THEN "Married"
  ELSE IF f = "notReported" THEN "NotReported"
  ELSE f

\* field.replace(/([A-Z])/g, ' $1').trim(): a space before every capital letter
Spaced(f) == IF f = "notReported" THEN "not Reported" ELSE f

\* row[h] of a parsed row, "" when the column is absent (both are falsy)
Cell(row, h) == IF Has(row, h) THEN row[h] ELSE ""

\* .filter(row => row.year && !isNaN(Number(row.year)))
ValidRow(row) == Cell(row, "year") # "" /\ Number(Cell(row, "year")) # NaN

\* variant: the converted value is floored at zero, Math.max(Number(value) || 0, 0)
ResolveFieldClamped(row, f) ==
  LET text == IF Cell(row, f) # "" THEN Cell(row, f)
              ELSE IF Cell(row, Capitalized(f)) # "" THEN Cell(row, Capitalized(f))
              ELSE IF Cell(row, Spaced(f)) # "" THEN Cell(row, Spaced(f))
              ELSE "0"
  IN IF Number(text) = NaN \/ Number(text) < 0 THEN 0 ELSE Number(text)

\* row[field] || row[Capitalized] || row[spaced] || 0, then Number(value) || 0
ResolveField(row, f) ==
  LET text == IF Cell(row, f) # "" THEN Cell(row, f)
              ELSE IF Cell(row, Capitalized(f)) # "" THEN Cell(row, Capitalized(f))
              ELSE IF Cell(row, Spaced(f)) # "" THEN Cell(row, Spaced(f))
              ELSE "0"
  IN IF Number(text) = NaN THEN 0 ELSE Number(text)

\* .map(row => record)
RecordFromRow(row) ==
  [f \in allFormFields |-> IF f = "year" THEN Number(row["year"]) ELSE ResolveField(row, f)]

RECURSIVE RecordsFromRows(_)
RecordsFromRows(data) ==
  IF data = <<>> THEN <<>>
  ELSE (IF ValidRow(Head(data)) THEN <<RecordFromRow(Head(data))>> ELSE <<>>)
       \o RecordsFromRows(Tail(data))

\* file.name.toLowerCase().endsWith('.csv')
IsCsvName(name) == name \in {"data.csv", "DATA.CSV"}

\* the inserts an upload of `file` will make if nothing fails
InsertsOf(file) ==
  IF file.picked /\ IsCsvName(file.name) /\ file.readable /\ ~file.errors
    THEN Len(RecordsFromRows(file.data)) ELSE 0

\* ------------------------------------------------------------------- state
VARIABLES
  store,        \* the collection: document id -> document data
  nextId,       \* the next id addDoc assigns
  mounted,      \* page -> the mount effect has run
  emigrants,    \* page -> the in-memory list: id -> data of the last applied fetch
  selectedYear, \* page -> the year selector's value: "All" or the text of a year
  editingId,    \* page -> id of the row in edit mode, NoId for null
  editForm,     \* page -> the edit form (field -> text)
  form,         \* page -> the add form (field -> text)
  csvFileName,  \* page -> name of the file being imported, "" for none
  message,      \* page -> the toast [text, type]
  loading,      \* page -> the loading flag
  timers,       \* page -> number of pending message-clear timers
  tasks,        \* task id -> the async handler waiting on the store; its field
                \* `made` lists the ids its inserts were given (history)
  trail,        \* page -> the user events so far, oldest first (history)
  panel,        \* the React state of the LSTM forecasting panel
  browser,      \* what the browser keeps: the model in IndexedDB, 'lstm-metadata'
  jobs,         \* job id -> the async handler of the panel waiting on an await
  presses       \* the user events on the panel so far, oldest first (history)

vars == <<store, nextId, mounted, emigrants, selectedYear, editingId, editForm, form,
          csvFileName, message, loading, timers, tasks, trail, panel, browser, jobs, presses>>

\* the forecasting panel, which the dataset pages never touch
forecastVars == <<panel, browser, jobs, presses>>

pageVars == <<emigrants, selectedYear, editingId, editForm, form, csvFileName, message, loading, timers>>

NoMessage == [text |-> "", type |-> ""]

Idle == [kind |-> "idle", page |-> 0, pc |-> "", id |-> NoId, rec |-> <<>>,
         file |-> <<>>, rows |-> <<>>, done |-> 0, made |-> <<>>, ok |-> TRUE,
         snap |-> <<>>]

FreeTasks == {t \in TaskIds : tasks[t].kind = "idle"}
HasFreeTask == FreeTasks # {}
NewTask == CHOOSE t \in FreeTasks : \A u \in FreeTasks : t <= u

\* inserts the running imports and adds have still to make
PendingInserts ==
  LET Left(t) == IF tasks[t].kind = "csv" /\ tasks[t].pc = "parse"
                   THEN IF tasks[t].file.readable /\ ~tasks[t].file.errors
                          THEN Len(RecordsFromRows(tasks[t].file.data)) ELSE 0
                 ELSE IF tasks[t].kind = "csv" /\ tasks[t].pc \in {"write", "written"}
                   THEN Len(tasks[t].rows) - tasks[t].done
                 ELSE IF tasks[t].kind = "add" /\ tasks[t].pc \in {"write", "written"} THEN 1
                 ELSE 0
      Sum[S \in SUBSET TaskIds] ==
        IF S = {} THEN 0 ELSE LET t == CHOOSE x \in S : TRUE IN Left(t) + Sum[S \ {t}]
  IN Sum[TaskIds]

\* ------------------------------------------------- forecasting panel: state
\* null, for a model, a metadata object or metrics that are not there. A model
\* is named by the training that built it (1, 2, ...) or by the file it came
\* from; a metadata object and metrics carry the name of the model they describe.
null == 0
\* trainingProgress === null
NoProgress == -1
\* the model and the metadata exported to a file from another browser, and the
\* metadata of a file that carries no metrics
FileModel == 8
BareMetadata == 9

\* metadata.metrics
MetricsOf(m) == IF m = BareMetadata THEN null ELSE m

\* the useState initial values of LSTMForecast
InitialPanel ==
  [isTraining |-> FALSE, trainingProgress |-> NoProgress, metrics |-> null,
   model |-> null, metadata |-> null, forecastYears |-> 5, forecasts |-> <<>>,
   validationResults |-> null, uiError |-> "", uiInfo |-> ""]

\* a file of the hidden file input: its name, whether JSON.parse accepts its
\* text, and the modelArchitecture, weightsData and remaining fields it holds
ModelFile(name, parseable, architecture, weights, metadata) ==
  [picked |-> TRUE, name |-> name, parseable |-> parseable, architecture |-> architecture,
   weights |-> weights, model |-> FileModel, metadata |-> metadata]

NoModelFile ==
  [picked |-> FALSE, name |-> "", parseable |-> FALSE, architecture |-> FALSE,
   weights |-> FALSE, model |-> null, metadata |-> null]

JobIds == 1..MaxJobs

NoJob == [kind |-> "idle", pc |-> "", model |-> null, metadata |-> null, file |-> NoModelFile,
          left |-> 0, predictions |-> <<>>, ok |-> TRUE, reports |-> 0]

FreeJobs == {j \in JobIds : jobs[j].kind = "idle"}
HasFreeJob == FreeJobs # {}
NewJob == CHOOSE j \in FreeJobs : \A k \in FreeJobs : j <= k

\* the documents of the collection when the model starts
InitialStore ==
  (1 :> [year |-> 2019, single |-> 100, married |-> 50]) @@
  (2 :> [year |-> 2020, single |-> 80])

Init ==
  /\ store = InitialStore
  /\ nextId = 3
  /\ mounted = [p \in Pages |-> FALSE]
  /\ emigrants = [p \in Pages |-> <<>>]
  /\ selectedYear = [p \in Pages |-> "All"]
  /\ editingId = [p \in Pages |-> NoId]
  /\ editForm = [p \in Pages |-> EmptyForm]
  /\ form = [p \in Pages |-> BlankForm]
  /\ csvFileName = [p \in Pages |-> ""]
  /\ message = [p \in Pages |-> NoMessage]
  /\ loading = [p \in Pages |-> FALSE]
  /\ timers = [p \in Pages |-> 0]
  /\ tasks = [t \in TaskIds |-> Idle]
  /\ trail = [p \in Pages |-> <<>>]
  /\ panel = InitialPanel
  /\ browser = [model |-> null, metadata |-> null]
  /\ jobs = [j \in JobIds |-> NoJob]
  /\ presses = <<>>


\* a user event on page p (the handler and the row or input it is given),
\* recorded and counted against MaxClicks
UserEvent(p, handler, arg) ==
  /\ mounted[p]
  /\ Len(trail[p]) < MaxClicks
  /\ trail' = [trail EXCEPT ![p] = Append(@, <<handler, arg>>)]
  /\ UNCHANGED forecastVars

\* ---------------------------------------------------------------- messages
Msg(text, type) == [text |-> text, type |-> type]

\* showMessage called once per element of msgs, in order: the last text stays,
\* and every call starts its own 3000 ms timer
ShowMessages(p, msgs) ==
  /\ timers[p] + Len(msgs) <= MaxTimers
  /\ message' = IF msgs = <<>> THEN message
                ELSE [message EXCEPT ![p] = msgs[Len(msgs)]]
  /\ timers' = [timers EXCEPT ![p] = @ + Len(msgs)]

\* the timer callback of showMessage: clears whatever message is shown
TimerFire(p) ==
  /\ timers[p] > 0
  /\ timers' = [timers EXCEPT ![p] = @ - 1]
  /\ message' = [message EXCEPT ![p] = NoMessage]
  /\ UNCHANGED <<store, nextId, mounted, selectedYear, emigrants, editingId, editForm, form,
                 csvFileName, loading, tasks>>
  /\ UNCHANGED <<trail, forecastVars>>

\* ------------------------------------------------------- the store service
\* addEmigrant: addDoc assigns a fresh id; a rejected call changes nothing
AddDoc(t) ==
  /\ tasks[t].pc = "write"
  /\ tasks[t].kind \in {"add", "csv"}
  /\ \E ok \in BOOLEAN :
       /\ IF ok
            THEN /\ nextId <= MaxDocs
                 /\ store' = [i \in DOMAIN store \cup {nextId} |->
                                IF i = nextId THEN tasks[t].rec ELSE store[i]]
                 /\ nextId' = nextId + 1
            ELSE UNCHANGED <<store, nextId>>
       /\ tasks' = [tasks EXCEPT ![t].pc = "written", ![t].ok = ok,
                                 ![t].made = IF ok THEN Append(@, nextId) ELSE @]
  /\ UNCHANGED <<mounted, pageVars>>
  /\ UNCHANGED <<trail, forecastVars>>

\* updateEmigrant: updateDoc overwrites the fields given and keeps the others;
\* it rejects when the document does not exist
UpdateDoc(t) ==
  /\ tasks[t].pc = "write"
  /\ tasks[t].kind = "save"
  /\ \E ok \in BOOLEAN :
       LET id == tasks[t].id
           data == tasks[t].rec
           done == ok /\ id \in DOMAIN store
       IN /\ store' = IF done
                        THEN [store EXCEPT ![id] =
                                [f \in DOMAIN store[id] \cup DOMAIN data |->
                                   IF f \in DOMAIN data THEN data[f] ELSE store[id][f]]]
                        ELSE store
          /\ tasks' = [tasks EXCEPT ![t].pc = "written", ![t].ok = done]
  /\ UNCHANGED <<nextId, mounted, pageVars>>
  /\ UNCHANGED <<trail, forecastVars>>

\* variant: the delete of a missing document is rejected, as an update is
DeleteDocStrict(t) ==
  /\ tasks[t].pc = "write"
  /\ tasks[t].kind = "delete"
  /\ \E ok \in BOOLEAN :
       LET done == ok /\ tasks[t].id \in DOMAIN store
       IN /\ store' = IF done THEN [i \in DOMAIN store \ {tasks[t].id} |-> store[i]]
                       ELSE store
          /\ tasks' = [tasks EXCEPT ![t].pc = "written", ![t].ok = done]
  /\ UNCHANGED <<nextId, mounted, pageVars>>
  /\ UNCHANGED <<trail, forecastVars>>

\* deleteEmigrant: deleteDoc of a missing document succeeds
DeleteDoc(t) ==
  /\ tasks[t].pc = "write"
  /\ tasks[t].kind = "delete"
  /\ \E ok \in BOOLEAN :
       /\ store' = IF ok THEN [i \in DOMAIN store \ {tasks[t].id} |-> store[i]] ELSE store
       /\ tasks' = [tasks EXCEPT ![t].pc = "written", ![t].ok = ok]
  /\ UNCHANGED <<nextId, mounted, pageVars>>
  /\ UNCHANGED <<trail, forecastVars>>

\* getEmigrants: the snapshot of the collection at the moment the store reads it
GetDocs(t) ==
  /\ tasks[t].pc = "fetch"
  /\ \E ok \in BOOLEAN :
       tasks' = [tasks EXCEPT ![t].pc = "fetched", ![t].ok = ok,
                              ![t].snap = IF ok THEN store ELSE <<>>]
  /\ UNCHANGED <<store, nextId, mounted, pageVars>>
  /\ UNCHANGED <<trail, forecastVars>>

\* --------------------------------------------------------------- fetchData
\* fetchData up to its await: setLoading(true) and the getEmigrants call
FetchDataCall(p, t, task) ==
  /\ loading' = [loading EXCEPT ![p] = TRUE]
  /\ tasks' = [tasks EXCEPT ![t] = [task EXCEPT !.pc = "fetch"]]

\* variant: setLoading(false) at the end of the try block, not in a finally
FetchDataReturnInTry(p, t, after) ==
  /\ emigrants' = IF tasks[t].ok THEN [emigrants EXCEPT ![p] = tasks[t].snap]
                  ELSE emigrants
  /\ ShowMessages(p, (IF tasks[t].ok THEN <<>>
                      ELSE <<Msg("Error fetching data", "error")>>) \o after)
  /\ loading' = IF tasks[t].ok THEN [loading EXCEPT ![p] = FALSE] ELSE loading
  /\ tasks' = [tasks EXCEPT ![t] = Idle]

\* fetchData after its await, followed by the messages the caller shows next
FetchDataReturn(p, t, after) ==
  /\ emigrants' = IF tasks[t].ok THEN [emigrants EXCEPT ![p] = tasks[t].snap]
                  ELSE emigrants
  /\ ShowMessages(p, (IF tasks[t].ok THEN <<>>
                      ELSE <<Msg("Error fetching data", "error")>>) \o after)
  /\ loading' = [loading EXCEPT ![p] = FALSE]
  /\ tasks' = [tasks EXCEPT ![t] = Idle]

\* useEffect(() => { fetchData(); }, [])
Mount(p) ==
  /\ ~mounted[p]
  /\ HasFreeTask
  /\ mounted' = [mounted EXCEPT ![p] = TRUE]
  /\ FetchDataCall(p, NewTask, [Idle EXCEPT !.kind = "mount", !.page = p])
  /\ UNCHANGED <<store, nextId, emigrants, selectedYear, editingId, editForm, form,
                 csvFileName, message, timers>>
  /\ UNCHANGED <<trail, forecastVars>>

MountFetched(t) ==
  /\ tasks[t].kind = "mount"
  /\ tasks[t].pc = "fetched"
  /\ FetchDataReturn(tasks[t].page, t, <<>>)
  /\ UNCHANGED <<store, nextId, mounted, selectedYear, editingId, editForm, form, csvFileName>>
  /\ UNCHANGED <<trail, forecastVars>>


\* ------------------------------------------------------------ the row render
\* {editingId === e.id ? <edit mode: inputs, Save, Cancel> : <view mode: Edit, Delete>}
RowInEditMode(p, id) == id \in DOMAIN emigrants[p] /\ editingId[p] = id
RowInViewMode(p, id) == id \in DOMAIN emigrants[p] /\ editingId[p] # id
EditingRows(p) == {id \in DOMAIN emigrants[p] : editingId[p] = id}

\* ------------------------------------------------------------ form handlers
\* handleChange: setForm({ ...form, [name]: value })
HandleChange(p, f, v) ==
  /\ UserEvent(p, "change", f)
  /\ form[p][f] # v
  /\ form' = [form EXCEPT ![p][f] = v]
  /\ UNCHANGED <<store, nextId, mounted, selectedYear, emigrants, editingId, editForm,
                 csvFileName, message, loading, timers, tasks>>

\* variant: the change is also patched into the in-memory row being edited
HandleEditChangePatching(p, f, v) ==
  /\ UserEvent(p, "editChange", f)
  /\ \E id \in DOMAIN emigrants[p] : RowInEditMode(p, id)
  /\ ~(Has(editForm[p], f) /\ editForm[p][f] = v)
  /\ editForm' = [editForm EXCEPT ![p] =
                    [g \in DOMAIN editForm[p] \cup {f} |->
                       IF g = f THEN v ELSE editForm[p][g]]]
  /\ emigrants' = [emigrants EXCEPT ![p][editingId[p]] =
                     [g \in DOMAIN @ \cup {f} |-> IF g = f THEN Number(v) ELSE @[g]]]
  /\ UNCHANGED <<store, nextId, mounted, selectedYear, editingId, form,
                 csvFileName, message, loading, timers, tasks>>

\* handleEditChange: setEditForm({ ...editForm, [name]: value })
HandleEditChange(p, f, v) ==
  /\ UserEvent(p, "editChange", f)
  /\ \E id \in DOMAIN emigrants[p] : RowInEditMode(p, id)
  /\ ~(Has(editForm[p], f) /\ editForm[p][f] = v)
  /\ editForm' = [editForm EXCEPT ![p] =
                    [g \in DOMAIN editForm[p] \cup {f} |->
                       IF g = f THEN v ELSE editForm[p][g]]]
  /\ UNCHANGED <<store, nextId, mounted, selectedYear, emigrants, editingId, form,
                 csvFileName, message, loading, timers, tasks>>

\* ------------------------------------------------------------------- handleAdd
HandleAdd(p) ==
  /\ UserEvent(p, "add", "")
  /\ IF form[p]["year"] = ""
       THEN /\ ShowMessages(p, <<Msg("Year is required", "error")>>)
            /\ UNCHANGED tasks
       ELSE /\ HasFreeTask
            /\ nextId + PendingInserts <= MaxDocs
            /\ tasks' = [tasks EXCEPT ![NewTask] =
                           [Idle EXCEPT !.kind = "add", !.page = p, !.pc = "write",
                                        !.rec = RecordFromForm(form[p])]]
            /\ UNCHANGED <<message, timers>>
  /\ UNCHANGED <<store, nextId, mounted, selectedYear, emigrants, editingId, editForm, form,
                 csvFileName, loading>>

\* <button onClick={handleAdd} disabled={!form.year}>
AddDisabled(p) == form[p]["year"] = ""

\* a click on the Add Record button: a disabled button fires no handler
ClickAdd(p) ==
  IF AddDisabled(p)
    THEN /\ UserEvent(p, "addDisabled", "")
         /\ UNCHANGED <<store, nextId, mounted, pageVars, tasks>>
    ELSE HandleAdd(p)

\* after `await addEmigrant(newRecord)`
HandleAddWritten(t) ==
  LET p == tasks[t].page IN
  /\ tasks[t].kind = "add"
  /\ tasks[t].pc = "written"
  /\ IF tasks[t].ok
       THEN /\ form' = [form EXCEPT ![p] = BlankForm]
            /\ FetchDataCall(p, t, tasks[t])
            /\ UNCHANGED <<message, timers>>
       ELSE /\ ShowMessages(p, <<Msg("Error adding record", "error")>>)
            /\ tasks' = [tasks EXCEPT ![t] = Idle]
            /\ UNCHANGED <<form, loading>>
  /\ UNCHANGED <<store, nextId, mounted, selectedYear, emigrants, editingId, editForm, csvFileName>>
  /\ UNCHANGED <<trail, forecastVars>>

\* after `await fetchData()` of handleAdd
HandleAddFetched(t) ==
  /\ tasks[t].kind = "add"
  /\ tasks[t].pc = "fetched"
  /\ FetchDataReturn(tasks[t].page, t, <<Msg("Record added successfully!", "success")>>)
  /\ UNCHANGED <<store, nextId, mounted, selectedYear, editingId, editForm, form, csvFileName>>
  /\ UNCHANGED <<trail, forecastVars>>

\* ------------------------------------------------------ handleEdit / handleCancel
\* variant: the form is seeded only when no edit session is open
HandleEditKeepingForm(p, id) ==
  /\ UserEvent(p, "edit", String(id))
  /\ RowInViewMode(p, id)
  /\ editingId' = [editingId EXCEPT ![p] = id]
  /\ editForm' = IF editingId[p] = NoId
                   THEN [editForm EXCEPT ![p] = FormFromRecord(emigrants[p][id])]
                   ELSE editForm
  /\ UNCHANGED <<store, nextId, mounted, selectedYear, emigrants, form, csvFileName, message,
                 loading, timers, tasks>>

HandleEdit(p, id) ==
  /\ UserEvent(p, "edit", String(id))
  /\ RowInViewMode(p, id)
  /\ editingId' = [editingId EXCEPT ![p] = id]
  /\ editForm' = [editForm EXCEPT ![p] = FormFromRecord(emigrants[p][id])]
  /\ UNCHANGED <<store, nextId, mounted, selectedYear, emigrants, form, csvFileName, message,
                 loading, timers, tasks>>

HandleCancel(p) ==
  /\ UserEvent(p, "cancel", "")
  /\ \E id \in DOMAIN emigrants[p] : RowInEditMode(p, id)
  /\ editingId' = [editingId EXCEPT ![p] = NoId]
  /\ editForm' = [editForm EXCEPT ![p] = EmptyForm]
  /\ UNCHANGED <<store, nextId, mounted, selectedYear, emigrants, form, csvFileName, message,
                 loading, timers, tasks>>

\* variant: Save sends only the fields whose value differs from the loaded row
HandleSaveChangedOnly(p, id) ==
  /\ UserEvent(p, "save", String(id))
  /\ RowInEditMode(p, id)
  /\ HasFreeTask
  /\ tasks' = [tasks EXCEPT ![NewTask] =
                 [Idle EXCEPT !.kind = "save", !.page = p, !.pc = "write", !.id = id,
                              !.rec = LET full == RecordFromForm(editForm[p])
                                          changed == {f \in allFormFields :
                                                        full[f] # ValueOrZero(emigrants[p][id], f)}
                                      IN [f \in changed |-> full[f]]]]
  /\ UNCHANGED <<store, nextId, mounted, pageVars>>

\* ------------------------------------------------------------------ handleSave
HandleSave(p, id) ==
  /\ UserEvent(p, "save", String(id))
  /\ RowInEditMode(p, id)
  /\ HasFreeTask
  /\ tasks' = [tasks EXCEPT ![NewTask] =
                 [Idle EXCEPT !.kind = "save", !.page = p, !.pc = "write", !.id = id,
                              !.rec = RecordFromForm(editForm[p])]]
  /\ UNCHANGED <<store, nextId, mounted, pageVars>>

\* variant: the edit session is closed whether or not the update succeeded
HandleSaveWrittenClosing(t) ==
  LET p == tasks[t].page IN
  /\ tasks[t].kind = "save"
  /\ tasks[t].pc = "written"
  /\ editingId' = [editingId EXCEPT ![p] = NoId]
  /\ editForm' = [editForm EXCEPT ![p] = EmptyForm]
  /\ IF tasks[t].ok
       THEN /\ FetchDataCall(p, t, tasks[t])
            /\ UNCHANGED <<message, timers>>
       ELSE /\ ShowMessages(p, <<Msg("Error updating record", "error")>>)
            /\ tasks' = [tasks EXCEPT ![t] = Idle]
            /\ UNCHANGED loading
  /\ UNCHANGED <<store, nextId, mounted, selectedYear, emigrants, form, csvFileName>>
  /\ UNCHANGED <<trail, forecastVars>>

\* after `await updateEmigrant(id, updatedRecord)`
HandleSaveWritten(t) ==
  LET p == tasks[t].page IN
  /\ tasks[t].kind = "save"
  /\ tasks[t].pc = "written"
  /\ IF tasks[t].ok
       THEN /\ editingId' = [editingId EXCEPT ![p] = NoId]
            /\ editForm' = [editForm EXCEPT ![p] = EmptyForm]
            /\ FetchDataCall(p, t, tasks[t])
            /\ UNCHANGED <<message, timers>>
       ELSE /\ ShowMessages(p, <<Msg("Error updating record", "error")>>)
            /\ tasks' = [tasks EXCEPT ![t] = Idle]
            /\ UNCHANGED <<editingId, editForm, loading>>
  /\ UNCHANGED <<store, nextId, mounted, selectedYear, emigrants, form, csvFileName>>
  /\ UNCHANGED <<trail, forecastVars>>

HandleSaveFetched(t) ==
  /\ tasks[t].kind = "save"
  /\ tasks[t].pc = "fetched"
  /\ FetchDataReturn(tasks[t].page, t, <<Msg("Record updated successfully!", "success")>>)
  /\ UNCHANGED <<store, nextId, mounted, selectedYear, editingId, editForm, form, csvFileName>>
  /\ UNCHANGED <<trail, forecastVars>>

\* variant: the answer of window.confirm is not looked at
HandleDeleteUnconfirmed(p, id, confirmed) ==
  /\ UserEvent(p, IF confirmed THEN "delete" ELSE "declined", String(id))
  /\ RowInViewMode(p, id)
  /\ HasFreeTask
  /\ tasks' = [tasks EXCEPT ![NewTask] =
                 [Idle EXCEPT !.kind = "delete", !.page = p, !.pc = "write", !.id = id]]
  /\ UNCHANGED <<store, nextId, mounted, pageVars>>

\* ---------------------------------------------------------------- handleDelete
HandleDelete(p, id, confirmed) ==
  /\ UserEvent(p, IF confirmed THEN "delete" ELSE "declined", String(id))
  /\ RowInViewMode(p, id)
  /\ IF ~confirmed
       THEN UNCHANGED tasks
       ELSE /\ HasFreeTask
            /\ tasks' = [tasks EXCEPT ![NewTask] =
                           [Idle EXCEPT !.kind = "delete", !.page = p, !.pc = "write",
                                        !.id = id]]
  /\ UNCHANGED <<store, nextId, mounted, pageVars>>

\* variant: a successful delete also closes the edit session
HandleDeleteWrittenClosing(t) ==
  LET p == tasks[t].page IN
  /\ tasks[t].kind = "delete"
  /\ tasks[t].pc = "written"
  /\ IF tasks[t].ok
       THEN /\ FetchDataCall(p, t, tasks[t])
            /\ editingId' = [editingId EXCEPT ![p] = NoId]
            /\ editForm' = [editForm EXCEPT ![p] = EmptyForm]
            /\ UNCHANGED <<message, timers>>
       ELSE /\ ShowMessages(p, <<Msg("Error deleting record.", "error")>>)
            /\ tasks' = [tasks EXCEPT ![t] = Idle]
            /\ UNCHANGED <<loading, editingId, editForm>>
  /\ UNCHANGED <<store, nextId, mounted, selectedYear, emigrants, form, csvFileName>>
  /\ UNCHANGED <<trail, forecastVars>>

\* after `await deleteEmigrant(id)`
HandleDeleteWritten(t) ==
  LET p == tasks[t].page IN
  /\ tasks[t].kind = "delete"
  /\ tasks[t].pc = "written"
  /\ IF tasks[t].ok
       THEN /\ FetchDataCall(p, t, tasks[t])
            /\ UNCHANGED <<message, timers>>
       ELSE /\ ShowMessages(p, <<Msg("Error deleting record.", "error")>>)
            /\ tasks' = [tasks EXCEPT ![t] = Idle]
            /\ UNCHANGED loading
  /\ UNCHANGED <<store, nextId, mounted, selectedYear, emigrants, editingId, editForm, form, csvFileName>>
  /\ UNCHANGED <<trail, forecastVars>>

HandleDeleteFetched(t) ==
  /\ tasks[t].kind = "delete"
  /\ tasks[t].pc = "fetched"
  /\ FetchDataReturn(tasks[t].page, t, <<Msg("Record deleted successfully!", "success")>>)
  /\ UNCHANGED <<store, nextId, mounted, selectedYear, editingId, editForm, form, csvFileName>>
  /\ UNCHANGED <<trail, forecastVars>>


\* ------------------------------------------------------------- handleCSVUpload
\* the change handler of the file input, up to the Papa.parse call
HandleCSVUpload(p, file) ==
  /\ UserEvent(p, "upload", file.name)
  /\ IF ~file.picked
       THEN /\ csvFileName' = [csvFileName EXCEPT ![p] = ""]
            /\ UNCHANGED <<message, timers, tasks>>
       ELSE IF ~IsCsvName(file.name)
       THEN /\ ShowMessages(p, <<Msg("Please select a CSV file", "error")>>)
            /\ UNCHANGED <<csvFileName, tasks>>
       ELSE /\ HasFreeTask
            /\ nextId + PendingInserts + InsertsOf(file) <= MaxDocs + 1
            /\ csvFileName' = [csvFileName EXCEPT ![p] = file.name]
            /\ tasks' = [tasks EXCEPT ![NewTask] =
                           [Idle EXCEPT !.kind = "csv", !.page = p, !.pc = "parse",
                                        !.file = file]]
            /\ UNCHANGED <<message, timers>>
  /\ UNCHANGED <<store, nextId, mounted, selectedYear, emigrants, editingId, editForm, form, loading>>

\* Papa.parse's error callback: the file could not be read
PapaError(t) ==
  LET p == tasks[t].page IN
  /\ tasks[t].kind = "csv"
  /\ tasks[t].pc = "parse"
  /\ ~tasks[t].file.readable
  /\ ShowMessages(p, <<Msg("Error reading CSV file", "error")>>)
  /\ csvFileName' = [csvFileName EXCEPT ![p] = ""]
  /\ tasks' = [tasks EXCEPT ![t] = Idle]
  /\ UNCHANGED <<store, nextId, mounted, selectedYear, emigrants, editingId, editForm, form, loading>>
  /\ UNCHANGED <<trail, forecastVars>>

UploadedMsg(n) == Msg(String(n) \o " records uploaded successfully!", "success")

\* variant: results.errors is not looked at
PapaCompleteIgnoringErrors(t) ==
  LET p == tasks[t].page
      records == RecordsFromRows(tasks[t].file.data)
  IN
  /\ tasks[t].kind = "csv"
  /\ tasks[t].pc = "parse"
  /\ tasks[t].file.readable
  /\ IF records = <<>>
       THEN /\ ShowMessages(p, <<UploadedMsg(0)>>)
            /\ FetchDataCall(p, t, [tasks[t] EXCEPT !.rows = records])
            /\ UNCHANGED csvFileName
       ELSE /\ tasks' = [tasks EXCEPT ![t] =
                           [tasks[t] EXCEPT !.rows = records, !.rec = records[1],
                                            !.pc = "write"]]
            /\ UNCHANGED <<message, timers, csvFileName, loading>>
  /\ UNCHANGED <<store, nextId, mounted, selectedYear, emigrants, editingId, editForm, form>>
  /\ UNCHANGED <<trail, forecastVars>>

\* Papa.parse's complete callback, up to its first await
PapaComplete(t) ==
  LET p == tasks[t].page
      records == RecordsFromRows(tasks[t].file.data)
  IN
  /\ tasks[t].kind = "csv"
  /\ tasks[t].pc = "parse"
  /\ tasks[t].file.readable
  /\ IF tasks[t].file.errors
       THEN /\ ShowMessages(p, <<Msg("Error parsing CSV file", "error")>>)
            /\ csvFileName' = [csvFileName EXCEPT ![p] = ""]
            /\ tasks' = [tasks EXCEPT ![t] = Idle]
            /\ UNCHANGED loading
       ELSE IF records = <<>>
       THEN /\ ShowMessages(p, <<UploadedMsg(0)>>)
            /\ FetchDataCall(p, t, [tasks[t] EXCEPT !.rows = records])
            /\ UNCHANGED csvFileName
       ELSE /\ tasks' = [tasks EXCEPT ![t] =
                           [tasks[t] EXCEPT !.rows = records, !.rec = records[1],
                                            !.pc = "write"]]
            /\ UNCHANGED <<message, timers, csvFileName, loading>>
  /\ UNCHANGED <<store, nextId, mounted, selectedYear, emigrants, editingId, editForm, form>>
  /\ UNCHANGED <<trail, forecastVars>>

\* variant: the loop index is one behind, so a row is sent twice
CsvWrittenSameRow(t) ==
  LET p == tasks[t].page
      done == tasks[t].done + 1
  IN
  /\ tasks[t].kind = "csv"
  /\ tasks[t].pc = "written"
  /\ IF ~tasks[t].ok
       THEN /\ ShowMessages(p, <<Msg("Error processing CSV data", "error")>>)
            /\ csvFileName' = [csvFileName EXCEPT ![p] = ""]
            /\ tasks' = [tasks EXCEPT ![t] = Idle]
            /\ UNCHANGED loading
       ELSE IF done < Len(tasks[t].rows)
       THEN /\ tasks' = [tasks EXCEPT ![t] =
                           [tasks[t] EXCEPT !.done = done, !.rec = tasks[t].rows[done],
                                            !.pc = "write"]]
            /\ UNCHANGED <<message, timers, csvFileName, loading>>
       ELSE /\ ShowMessages(p, <<UploadedMsg(Len(tasks[t].rows))>>)
            /\ FetchDataCall(p, t, [tasks[t] EXCEPT !.done = done])
            /\ UNCHANGED csvFileName
  /\ UNCHANGED <<store, nextId, mounted, selectedYear, emigrants, editingId, editForm, form>>
  /\ UNCHANGED <<trail, forecastVars>>

\* variant: the try/catch is inside the loop, so a failed row is skipped and
\* the import goes on with the next row
CsvWrittenKeepGoing(t) ==
  LET p == tasks[t].page
      done == tasks[t].done + 1
  IN
  /\ tasks[t].kind = "csv"
  /\ tasks[t].pc = "written"
  /\ IF done < Len(tasks[t].rows)
       THEN /\ tasks' = [tasks EXCEPT ![t] =
                           [tasks[t] EXCEPT !.done = done, !.rec = tasks[t].rows[done + 1],
                                            !.pc = "write"]]
            /\ UNCHANGED <<message, timers, csvFileName, loading>>
       ELSE /\ ShowMessages(p, <<UploadedMsg(Len(tasks[t].rows))>>)
            /\ FetchDataCall(p, t, [tasks[t] EXCEPT !.done = done])
            /\ UNCHANGED csvFileName
  /\ UNCHANGED <<store, nextId, mounted, selectedYear, emigrants, editingId, editForm, form>>
  /\ UNCHANGED <<trail, forecastVars>>

\* after `await addEmigrant(record)` inside `for (const record of records)`
CsvWritten(t) ==
  LET p == tasks[t].page
      done == tasks[t].done + 1
  IN
  /\ tasks[t].kind = "csv"
  /\ tasks[t].pc = "written"
  /\ IF ~tasks[t].ok
       THEN /\ ShowMessages(p, <<Msg("Error processing CSV data", "error")>>)
            /\ csvFileName' = [csvFileName EXCEPT ![p] = ""]
            /\ tasks' = [tasks EXCEPT ![t] = Idle]
            /\ UNCHANGED loading
       ELSE IF done < Len(tasks[t].rows)
       THEN /\ tasks' = [tasks EXCEPT ![t] =
                           [tasks[t] EXCEPT !.done = done, !.rec = tasks[t].rows[done + 1],
                                            !.pc = "write"]]
            /\ UNCHANGED <<message, timers, csvFileName, loading>>
       ELSE /\ ShowMessages(p, <<UploadedMsg(Len(tasks[t].rows))>>)
            /\ FetchDataCall(p, t, [tasks[t] EXCEPT !.done = done])
            /\ UNCHANGED csvFileName
  /\ UNCHANGED <<store, nextId, mounted, selectedYear, emigrants, editingId, editForm, form>>
  /\ UNCHANGED <<trail, forecastVars>>

\* after `await fetchData()` of the complete callback, and its finally block
CsvFetched(t) ==
  LET p == tasks[t].page IN
  /\ tasks[t].kind = "csv"
  /\ tasks[t].pc = "fetched"
  /\ FetchDataReturn(p, t, <<>>)
  /\ csvFileName' = [csvFileName EXCEPT ![p] = ""]
  /\ UNCHANGED <<store, nextId, mounted, selectedYear, editingId, editForm, form>>
  /\ UNCHANGED <<trail, forecastVars>>

\* ------------------------------------------------------------------- inputs
Row1 == [year |-> "2021", single |-> "60"]
Row2 == [year |-> "2021", Married |-> "50"]
RowNoYear == [single |-> "80"]

CsvFile(name, readable, errors, data) ==
  [picked |-> TRUE, name |-> name, readable |-> readable, errors |-> errors, data |-> data]

NoFile == [picked |-> FALSE, name |-> "", readable |-> FALSE, errors |-> FALSE, data |-> <<>>]

Files ==
  { NoFile,
    CsvFile("notes.txt", TRUE, FALSE, <<Row1>>),
    CsvFile("data.csv", FALSE, FALSE, <<>>),
    CsvFile("data.csv", TRUE, TRUE, <<Row1, Row2>>),
    CsvFile("data.csv", TRUE, FALSE, <<RowNoYear>>),
    CsvFile("data.csv", TRUE, FALSE, <<Row1, RowNoYear, Row2>>) }

\* what the user types into the add form and into the edit form
AddInputs == {<<"year", "2021">>}
EditInputs == {<<"married", "60">>, <<"single", "">>}
\* the texts typed into field f, as a sequence
EditTextsOf(f) == IF f = "married" THEN <<"60">> ELSE IF f = "single" THEN <<"">> ELSE <<>>

\* ------------------------------------------------------- parsed file contents
\* Papa.parse(file, { header: true, skipEmptyLines: true }) on the lines of a
\* file, each line the sequence of its cells: the first line names the columns,
\* empty lines are skipped, a row is keyed by the column names, and a line with
\* more or with fewer cells than the header is reported in results.errors (the
\* cells beyond the header go to __parsed_extra, which no handler reads)
PapaParse(lines) ==
  LET header == lines[1]
      body == SelectSeq(Tail(lines), LAMBDA l : l # <<"">>)
      Width(l) == IF Len(l) < Len(header) THEN Len(l) ELSE Len(header)
      RowOf(l) == [h \in {header[i] : i \in 1..Width(l)} |->
                     l[CHOOSE i \in 1..Width(l) : header[i] = h]]
  IN [errors |-> \E i \in 1..Len(body) : Len(body[i]) # Len(header),
      data |-> [i \in 1..Len(body) |-> RowOf(body[i])]]

\* a readable .csv file with these lines
CsvText(lines) ==
  CsvFile("data.csv", TRUE, PapaParse(lines).errors, PapaParse(lines).data)

\* year,single,married / 2019,100,50 / 2020,80,,
TrailingCellLines ==
  << <<"year", "single", "married">>, <<"2019", "100", "50">>, <<"2020", "80", "", "">> >>

\* the same without the trailing cell
TwoRowLines ==
  << <<"year", "single", "married">>, <<"2019", "100", "50">>, <<"2020", "80", "">> >>

\* the year column under another casing
YearCapLines == << <<"Year", "single">>, <<"2021", "60">> >>
YearUpperLines == << <<"YEAR", "single">>, <<"2021", "60">> >>

\* category columns under the canonical and under other headers, years that
\* are not numbers, a zero year, a negative and a non-numeric count
VariantLines ==
  << <<"year", "single", "Single", "notreported">>,
     <<"2019", "", "80", "50">>,
     <<"abc", "60", "", "">>,
     <<"", "60", "", "">>,
     <<"0", "-5", "", "">> >>

\* a year the collection already holds, both headers of one category filled
SameYearLines ==
  << <<"year", "single", "Single", "NotReported", "married">>,
     <<"2019", "60", "80", "-5", "abc">> >>

\* a year of its own whose two counts cancel out
CancelLines == << <<"year", "single", "married">>, <<"2021", "5", "-5">> >>

ImportFiles ==
  { CsvText(TrailingCellLines), CsvText(TwoRowLines), CsvText(YearCapLines),
    CsvText(YearUpperLines), CsvText(VariantLines), CsvText(SameYearLines),
    CsvText(CancelLines) }

\* --------------------------------------------------------------- aggregation
\* Boolean(v) of a number or undefined
Truthy(v) == v # 0 /\ v # NaN

RECURSIVE SetToSeq(_)
\* the elements of a set of numbers as a list, smallest first
SetToSeq(S) ==
  IF S = {} THEN <<>>
  ELSE LET m == CHOOSE x \in S : \A y \in S : x <= y IN <<m>> \o SetToSeq(S \ {m})

\* the in-memory list of page p as a list: the rows in document-id order
Records(p) ==
  LET ids == SetToSeq(DOMAIN emigrants[p]) IN [i \in 1..Len(ids) |-> emigrants[p][ids[i]]]

RECURSIVE Distinct(_)
\* Array.from(new Set(list)): every value once, in order of first occurrence
Distinct(list) ==
  IF list = <<>> THEN <<>>
  ELSE LET rest == Distinct(SelectSeq(Tail(list), LAMBDA v : v # Head(list)))
       IN <<Head(list)>> \o rest

RECURSIVE SortedAscending(_)
\* list.sort((a, b) => a - b)
SortedAscending(list) ==
  IF list = <<>> THEN <<>>
  ELSE LET i == CHOOSE k \in 1..Len(list) : \A j \in 1..Len(list) : list[k] <= list[j]
       IN <<list[i]>> \o SortedAscending(SubSeq(list, 1, i - 1) \o SubSeq(list, i + 1, Len(list)))

\* emigrants.map((r) => r.year).filter(Boolean)
YearCells(p) ==
  SelectSeq([i \in 1..Len(Records(p)) |->
               IF Has(Records(p)[i], "year") THEN Records(p)[i]["year"] ELSE NaN],
            Truthy)

\* variant: the years are sorted without being made distinct
YearsWithDuplicates(p) == SortedAscending(YearCells(p))

\* years: Array.from(new Set(...)).map(Number), sorted ascending
Years(p) == SortedAscending(Distinct(YearCells(p)))

\* the values of the <option>s of the year selector
YearOptions(p) == {"All"} \cup {String(Years(p)[i]) : i \in 1..Len(Years(p))}

\* Number(r.year) === Number(selectedYear): NaN equals nothing
YearMatches(r, selected) ==
  /\ Has(r, "year") /\ r["year"] # NaN
  /\ Number(selected) # NaN
  /\ r["year"] = Number(selected)

\* filteredRecords
FilteredRecords(p) ==
  IF selectedYear[p] = "All" THEN Records(p)
  ELSE SelectSeq(Records(p), LAMBDA r : YearMatches(r, selectedYear[p]))

RECURSIVE SumField(_, _)
\* reduce: acc[field] += cur[field] || 0
SumField(list, f) ==
  IF list = <<>> THEN 0 ELSE ValueOrZero(Head(list), f) + SumField(Tail(list), f)

RECURSIVE SumFieldClamped(_, _)
\* reduce: acc[f] += Math.max(Number(cur[f]) || 0, 0)
SumFieldClamped(list, f) ==
  IF list = <<>> THEN 0
  ELSE (IF ValueOrZero(Head(list), f) < 0 THEN 0 ELSE ValueOrZero(Head(list), f))
       + SumFieldClamped(Tail(list), f)

\* variant: the totals of the occupation page's treemap, negative values as 0
TotalsClamped(p) == [f \in civilStatusFields |-> SumFieldClamped(FilteredRecords(p), f)]

\* totals, the counts of chartData
Totals(p) == [f \in civilStatusFields |-> SumField(FilteredRecords(p), f)]

\* onChange of the year selector: setSelectedYear(e.target.value)
HandleYearSelect(p, y) ==
  /\ UserEvent(p, "selectYear", y)
  /\ y # selectedYear[p]
  /\ selectedYear' = [selectedYear EXCEPT ![p] = y]
  /\ UNCHANGED <<store, nextId, mounted, emigrants, editingId, editForm, form,
                 csvFileName, message, loading, timers, tasks>>

\* ---------------------------------------------------------------- percentages
\* what a division by zero yields in JS, as numbers the model never computes with
Infinity == 2000000

RECURSIVE SumFields(_, _)
\* countries.forEach(c => total += filteredRecords.reduce((s, item) => s + (item[c] || 0), 0))
SumFields(fields, list) ==
  IF fields = {} THEN 0
  ELSE LET f == CHOOSE x \in fields : TRUE
       IN SumField(list, f) + SumFields(fields \ {f}, list)

\* totalEmigrants: the grand total of the selected records over the page's categories
TotalEmigrants(p) == SumFields(civilStatusFields, FilteredRecords(p))

\* ((a / b) * 100).toFixed(1), in tenths of a percent: 0 / 0 is NaN, x / 0 is
\* +Infinity or -Infinity, anything else is rounded to one decimal
PercentTenths(a, b) ==
  IF b = 0 THEN (IF a = 0 THEN NaN ELSE IF a > 0 THEN Infinity ELSE 0 - Infinity)
  ELSE LET n == IF b < 0 THEN 0 - a ELSE a
           d == IF b < 0 THEN 0 - b ELSE b
       IN IF n >= 0 THEN (2000 * n + d) \div (2 * d)
          ELSE 0 - ((2000 * (0 - n) + d) \div (2 * d))

\* variant: the percentage divides whatever the grand total is
PercentageUnguarded(p, f) ==
  PercentTenths(SumField(FilteredRecords(p), f), TotalEmigrants(p))

\* percentage = totalEmigrants > 0 ? ((total / totalEmigrants) * 100).toFixed(1) : 0
Percentage(p, f) ==
  IF TotalEmigrants(p) > 0
    THEN PercentTenths(SumField(FilteredRecords(p), f), TotalEmigrants(p))
    ELSE 0

\* -------------------------------------------------------------- summary cards
\* The age, occupation, education and country pages show summary cards next to
\* the chart; civilStatusFields stand for the page's categories.

\* variant: the summary cards total the records the year selector selects
SummaryTotalsFiltered(p) == [f \in civilStatusFields |-> SumField(FilteredRecords(p), f)]

\* totals: totalByAgeGroup[group] = emigrants.reduce((sum, e) => sum + (e[group] || 0), 0)
SummaryTotals(p) == [f \in civilStatusFields |-> SumField(Records(p), f)]

\* totals.total: grandTotal = Object.values(totalByAgeGroup).reduce((sum, value) => sum + value, 0)
SummaryGrandTotal(p) == SumFields(civilStatusFields, Records(p))

\* rawTotals of the occupation page's treemap: the selected records, a negative
\* value counted as 0
RawTotals(p) == [f \in civilStatusFields |-> SumFieldClamped(FilteredRecords(p), f)]

\* ------------------------------------------------------------ specification
StoreStep(t) == AddDoc(t) \/ UpdateDoc(t) \/ DeleteDoc(t) \/ GetDocs(t)

Continue(t) ==
  \/ MountFetched(t)
  \/ HandleAddWritten(t) \/ HandleAddFetched(t)
  \/ HandleSaveWritten(t) \/ HandleSaveFetched(t)
  \/ HandleDeleteWritten(t) \/ HandleDeleteFetched(t)
  \/ PapaError(t) \/ PapaComplete(t) \/ CsvWritten(t) \/ CsvFetched(t)

\* one page instance
Next ==
  \/ Mount(1)
  \/ \E in \in AddInputs : HandleChange(1, in[1], in[2])
  \/ ClickAdd(1)
  \/ \E id \in DOMAIN emigrants[1] : HandleEdit(1, id)
  \/ \E in \in EditInputs : HandleEditChange(1, in[1], in[2])
  \/ \E id \in DOMAIN emigrants[1] : HandleSave(1, id)
  \/ HandleCancel(1)
  \/ \E id \in DOMAIN emigrants[1], c \in BOOLEAN : HandleDelete(1, id, c)
  \/ \E file \in Files : HandleCSVUpload(1, file)
  \/ TimerFire(1)
  \/ \E t \in TaskIds : StoreStep(t)
  \/ \E t \in TaskIds : Continue(t)

Spec == Init /\ [][Next]_vars

\* two page instances (tabs) of the same dataset page, each editing and saving
NextTabs ==
  \/ \E p \in Pages : Mount(p)
  \/ \E p \in Pages : \E id \in DOMAIN emigrants[p] : HandleEdit(p, id)
  \/ \E p \in Pages : \E in \in EditInputs : HandleEditChange(p, in[1], in[2])
  \/ \E p \in Pages : \E id \in DOMAIN emigrants[p] : HandleSave(p, id)
  \/ \E p \in Pages : TimerFire(p)
  \/ \E t \in TaskIds : UpdateDoc(t)
  \/ \E t \in TaskIds : GetDocs(t)
  \/ \E t \in TaskIds : MountFetched(t)
  \/ \E t \in TaskIds : HandleSaveWritten(t)
  \/ \E t \in TaskIds : HandleSaveFetched(t)

SpecTabs == Init /\ [][NextTabs]_vars

\* two clients (page instances) deleting rows of the same collection, every
\* confirmation answered with OK
NextClients ==
  \/ \E p \in Pages : Mount(p)
  \/ \E p \in Pages : \E id \in DOMAIN emigrants[p] :
       Len(trail[p]) < MaxDeletes /\ HandleDelete(p, id, TRUE)
  \/ \E p \in Pages : TimerFire(p)
  \/ \E t \in TaskIds : DeleteDoc(t)
  \/ \E t \in TaskIds : GetDocs(t)
  \/ \E t \in TaskIds : MountFetched(t)
  \/ \E t \in TaskIds : HandleDeleteWritten(t)
  \/ \E t \in TaskIds : HandleDeleteFetched(t)

SpecClients == Init /\ [][NextClients]_vars

\* one page instance importing files and filtering the chart by year
NextImport ==
  \/ Mount(1)
  \/ \E file \in ImportFiles : HandleCSVUpload(1, file)
  \/ \E y \in YearOptions(1) : HandleYearSelect(1, y)
  \/ TimerFire(1)
  \/ \E t \in TaskIds : AddDoc(t)
  \/ \E t \in TaskIds : GetDocs(t)
  \/ \E t \in TaskIds : MountFetched(t)
  \/ \E t \in TaskIds : PapaComplete(t)
  \/ \E t \in TaskIds : CsvWritten(t)
  \/ \E t \in TaskIds : CsvFetched(t)

SpecImport == Init /\ [][NextImport]_vars


\* ============================================== the LSTM forecasting panel
\* the dataset pages and the store, which the panel never touches
datasetVars == <<store, nextId, mounted, pageVars, tasks, trail>>

\* a user event on the panel (the handler it runs), recorded and counted
\* against MaxPresses
PanelEvent(handler) ==
  /\ Len(presses) < MaxPresses
  /\ presses' = Append(presses, handler)

\* the trainings started so far; the next one builds the model Trained + 1
Trained == Cardinality({i \in 1..Len(presses) : presses[i] = "train"})

\* what error.message of a caught error reads
ErrorMessage == "error.message"

\* ----------------------------------------------------------------- handleTrain
\* catch and finally of handleTrain
TrainingFailed(j, text) ==
  /\ panel' = [panel EXCEPT !.uiError = text, !.isTraining = FALSE, !.uiInfo = ""]
  /\ jobs' = [jobs EXCEPT ![j] = NoJob]

\* handleTrain up to `await trainLSTMModel(...)`; enough: data has LOOKBACK + 1 points
HandleTrain(enough) ==
  /\ PanelEvent(IF enough THEN "train" ELSE "trainRefused")
  /\ IF ~enough
       THEN /\ panel' = [panel EXCEPT !.uiError = "Need at least 4 data points to train"]
            /\ UNCHANGED jobs
       ELSE /\ HasFreeJob
            /\ Trained < MaxTrainings
            /\ panel' = [panel EXCEPT !.isTraining = TRUE, !.trainingProgress = 0,
                                      !.metrics = null, !.uiError = "",
                                      !.uiInfo = "Training LSTM..."]
            /\ jobs' = [jobs EXCEPT ![NewJob] =
                          [NoJob EXCEPT !.kind = "train", !.pc = "fit", !.model = Trained + 1]]
  /\ UNCHANGED <<browser, datasetVars>>

\* the onEpochEnd callback, called on every 20th epoch while model.fit runs
OnEpochEnd(j) ==
  /\ jobs[j].kind = "train"
  /\ jobs[j].pc = "fit"
  /\ jobs[j].reports < MaxReports
  /\ panel' = [panel EXCEPT !.trainingProgress = 20 * jobs[j].reports + 1]
  /\ jobs' = [jobs EXCEPT ![j].reports = @ + 1]
  /\ UNCHANGED <<browser, presses, datasetVars>>

\* after `await trainLSTMModel(...)`: model.fit resolved or threw
TrainLSTMModelDone(j) ==
  /\ jobs[j].kind = "train"
  /\ jobs[j].pc = "fit"
  /\ \E ok \in BOOLEAN :
       IF ok THEN /\ jobs' = [jobs EXCEPT ![j].pc = "predict"]
                 /\ UNCHANGED panel
            ELSE TrainingFailed(j, ErrorMessage)
  /\ UNCHANGED <<browser, presses, datasetVars>>

\* after `await predictLSTM(newModel, X)`: validation results and metrics, then saveLSTMModel
PredictLSTMDone(j) ==
  /\ jobs[j].kind = "train"
  /\ jobs[j].pc = "predict"
  /\ \E ok \in BOOLEAN :
       IF ok THEN /\ panel' = [panel EXCEPT !.validationResults = jobs[j].model,
                                            !.metrics = jobs[j].model]
                 /\ jobs' = [jobs EXCEPT ![j].pc = "save", ![j].metadata = jobs[j].model]
            ELSE TrainingFailed(j, ErrorMessage)
  /\ UNCHANGED <<browser, presses, datasetVars>>

\* saveLSTMModel: model.save to IndexedDB, then localStorage.setItem('lstm-metadata').
\* A rejected model.save writes neither; a setItem that throws (storage full or
\* refused) leaves the new model saved with the metadata that was there
SaveLSTMModel(j) ==
  /\ jobs[j].kind = "train"
  /\ jobs[j].pc = "save"
  /\ \E saved \in BOOLEAN, set \in BOOLEAN :
       /\ browser' = [model |-> IF saved THEN jobs[j].model ELSE browser.model,
                      metadata |-> IF saved /\ set THEN jobs[j].metadata ELSE browser.metadata]
       /\ jobs' = [jobs EXCEPT ![j].pc = "saved", ![j].ok = saved /\ set]
  /\ UNCHANGED <<panel, presses, datasetVars>>

\* after `await saveLSTMModel(...)`: setModel, setMetadata, and the finally block
HandleTrainSaved(j) ==
  /\ jobs[j].kind = "train"
  /\ jobs[j].pc = "saved"
  /\ IF jobs[j].ok
       THEN /\ panel' = [panel EXCEPT !.model = jobs[j].model, !.metadata = jobs[j].metadata,
                                      !.isTraining = FALSE, !.uiInfo = ""]
            /\ jobs' = [jobs EXCEPT ![j] = NoJob]
       ELSE TrainingFailed(j, ErrorMessage)
  /\ UNCHANGED <<browser, presses, datasetVars>>

\* the steps of a training after it has started
TrainingStep(j) ==
  TrainLSTMModelDone(j) \/ PredictLSTMDone(j) \/ SaveLSTMModel(j) \/ HandleTrainSaved(j)

\* ------------------------------------------------------------- handleLoadModel
HandleLoadModel ==
  /\ PanelEvent("load")
  /\ HasFreeJob
  /\ panel' = [panel EXCEPT !.uiError = ""]
  /\ jobs' = [jobs EXCEPT ![NewJob] = [NoJob EXCEPT !.kind = "load", !.pc = "load"]]
  /\ UNCHANGED <<browser, datasetVars>>

\* loadLSTMModel: null when tf.loadLayersModel throws (no model saved, or the
\* read fails), otherwise the saved model with JSON.parse of 'lstm-metadata'
LoadLSTMModel(j) ==
  /\ jobs[j].kind = "load"
  /\ jobs[j].pc = "load"
  /\ \E ok \in BOOLEAN :
       LET found == ok /\ browser.model # null IN
       jobs' = [jobs EXCEPT ![j].pc = "loaded", ![j].ok = found,
                            ![j].model = IF found THEN browser.model ELSE null,
                            ![j].metadata = IF found THEN browser.metadata ELSE null]
  /\ UNCHANGED <<panel, browser, presses, datasetVars>>

\* after `await loadLSTMModel()`: result.metadata.metrics throws on a null metadata
HandleLoadModelLoaded(j) ==
  /\ jobs[j].kind = "load"
  /\ jobs[j].pc = "loaded"
  /\ panel' = IF ~jobs[j].ok THEN panel
              ELSE IF jobs[j].metadata = null
                THEN [panel EXCEPT !.model = jobs[j].model, !.metadata = null,
                                   !.uiError = ErrorMessage]
              ELSE [panel EXCEPT !.model = jobs[j].model, !.metadata = jobs[j].metadata,
                                 !.metrics = MetricsOf(jobs[j].metadata)]
  /\ jobs' = [jobs EXCEPT ![j] = NoJob]
  /\ UNCHANGED <<browser, presses, datasetVars>>

\* ----------------------------------------------------------- handleDeleteModel
HandleDeleteModel(confirmed) ==
  /\ PanelEvent(IF confirmed THEN "delete" ELSE "deleteDeclined")
  /\ IF ~confirmed
       THEN UNCHANGED jobs
       ELSE /\ HasFreeJob
            /\ jobs' = [jobs EXCEPT ![NewJob] = [NoJob EXCEPT !.kind = "delete", !.pc = "remove"]]
  /\ UNCHANGED <<panel, browser, datasetVars>>

\* deleteLSTMModel: removeModel and removeItem; when removeModel throws (nothing
\* saved, or the removal fails) the catch returns false and nothing is removed
DeleteLSTMModel(j) ==
  /\ jobs[j].kind = "delete"
  /\ jobs[j].pc = "remove"
  /\ \E ok \in BOOLEAN :
       /\ browser' = IF ok /\ browser.model # null THEN [model |-> null, metadata |-> null]
                     ELSE browser
       /\ jobs' = [jobs EXCEPT ![j].pc = "removed", ![j].ok = ok /\ browser.model # null]
  /\ UNCHANGED <<panel, presses, datasetVars>>

\* after `await deleteLSTMModel()`, whose result is not looked at
HandleDeleteModelRemoved(j) ==
  /\ jobs[j].kind = "delete"
  /\ jobs[j].pc = "removed"
  /\ panel' = [panel EXCEPT !.model = null, !.metadata = null, !.metrics = null,
                            !.forecasts = <<>>]
  /\ jobs' = [jobs EXCEPT ![j] = NoJob]
  /\ UNCHANGED <<browser, presses, datasetVars>>

\* --------------------------------------------------------- handleDownloadModel
\* downloadLSTMModel has no await before it returns: the export either is
\* handed to the browser or throws
HandleDownloadModel(ok) ==
  /\ PanelEvent("download")
  /\ panel' = IF panel.model = null \/ panel.metadata = null \/ ok THEN panel
              ELSE [panel EXCEPT !.uiError = ErrorMessage]
  /\ UNCHANGED <<browser, jobs, datasetVars>>

\* ----------------------------------------------------------- handleUploadModel
IsJsonName(name) == name \in {"lstm-model-complete.json", "broken.json", "partial.json"}

\* onChange of the hidden file input, up to `await uploadLSTMModelFromJSON(jsonFile)`
HandleUploadModel(file) ==
  /\ PanelEvent("upload")
  /\ IF ~file.picked \/ ~IsJsonName(file.name)
       THEN UNCHANGED <<panel, jobs>>
       ELSE /\ HasFreeJob
            /\ panel' = [panel EXCEPT !.uiError = ""]
            /\ jobs' = [jobs EXCEPT ![NewJob] =
                          [NoJob EXCEPT !.kind = "upload", !.pc = "read", !.file = file]]
  /\ UNCHANGED <<browser, datasetVars>>

\* uploadLSTMModelFromJSON: JSON.parse of the text (throws on a broken file),
\* localStorage.setItem('lstm-metadata', ...) of everything but the architecture
\* and the weights, and only then the check for them and the rebuilding of the
\* model, either of which can throw
UploadLSTMModelFromJSON(j) ==
  /\ jobs[j].kind = "upload"
  /\ jobs[j].pc = "read"
  /\ LET file == jobs[j].file IN
     \E built \in BOOLEAN :
       LET restored == file.parseable /\ file.architecture /\ file.weights /\ built IN
       /\ browser' = IF file.parseable THEN [browser EXCEPT !.metadata = file.metadata]
                     ELSE browser
       /\ jobs' = [jobs EXCEPT ![j].pc = "restored", ![j].ok = restored,
                               ![j].model = IF restored THEN file.model ELSE null,
                               ![j].metadata = IF restored THEN file.metadata ELSE null]
  /\ UNCHANGED <<panel, presses, datasetVars>>

\* after `await uploadLSTMModelFromJSON(jsonFile)`
HandleUploadModelRestored(j) ==
  /\ jobs[j].kind = "upload"
  /\ jobs[j].pc = "restored"
  /\ panel' = IF ~jobs[j].ok THEN [panel EXCEPT !.uiError = ErrorMessage]
              ELSE [panel EXCEPT !.model = jobs[j].model, !.metadata = jobs[j].metadata,
                                 !.metrics = IF MetricsOf(jobs[j].metadata) # null
                                               THEN MetricsOf(jobs[j].metadata) ELSE @]
  /\ jobs' = [jobs EXCEPT ![j] = NoJob]
  /\ UNCHANGED <<browser, presses, datasetVars>>

\* the files picked in the model
ModelFiles ==
  { ModelFile("lstm-model-complete.json", TRUE, TRUE, TRUE, FileModel),
    ModelFile("partial.json", TRUE, TRUE, FALSE, BareMetadata),
    ModelFile("broken.json", FALSE, FALSE, FALSE, null),
    ModelFile("model.txt", TRUE, TRUE, TRUE, FileModel),
    NoModelFile }

\* -------------------------------------------------------------- handleForecast
\* Math.max(1, Math.min(10, Number(forecastYears) || 0))
YearsToForecast(n) ==
  LET v == IF n = NaN THEN 0 ELSE n
      capped == IF v > 10 THEN 10 ELSE v
  IN IF capped < 1 THEN 1 ELSE capped

\* the values typed into the years input: parseInt of an empty input is NaN
ForecastYearInputs == {NaN, 2}

\* onChange of the years input: setForecastYears(parseInt(e.target.value))
SetForecastYears(v) ==
  /\ PanelEvent("years")
  /\ v # panel.forecastYears
  /\ panel' = [panel EXCEPT !.forecastYears = v]
  /\ UNCHANGED <<browser, jobs, datasetVars>>

\* variant: the handler starts whatever model and metadata the panel holds
HandleForecastUnguarded ==
  /\ PanelEvent("forecast")
  /\ HasFreeJob
  /\ jobs' = [jobs EXCEPT ![NewJob] =
                [NoJob EXCEPT !.kind = "forecast", !.pc = "predict",
                              !.model = panel.model, !.metadata = panel.metadata,
                              !.left = YearsToForecast(panel.forecastYears)]]
  /\ UNCHANGED <<panel, browser, datasetVars>>

\* handleForecast up to its first `await predictLSTM(model, input)`
HandleForecast ==
  /\ PanelEvent("forecast")
  /\ IF panel.model = null \/ panel.metadata = null
       THEN UNCHANGED jobs
       ELSE /\ HasFreeJob
            /\ jobs' = [jobs EXCEPT ![NewJob] =
                          [NoJob EXCEPT !.kind = "forecast", !.pc = "predict",
                                        !.model = panel.model, !.metadata = panel.metadata,
                                        !.left = YearsToForecast(panel.forecastYears)]]
  /\ UNCHANGED <<panel, browser, datasetVars>>

\* one turn of the loop after `await predictLSTM(...)`: the prediction is
\* pushed; after the last one setForecasts(predictions); a throw ends the handler
ForecastPredicted(j) ==
  /\ jobs[j].kind = "forecast"
  /\ jobs[j].pc = "predict"
  /\ \E ok \in BOOLEAN :
       LET predictions == Append(jobs[j].predictions,
                                 [year |-> Len(jobs[j].predictions) + 1,
                                  model |-> jobs[j].model])
       IN IF ~ok
            THEN /\ jobs' = [jobs EXCEPT ![j] = NoJob]
                 /\ UNCHANGED panel
          ELSE IF jobs[j].left > 1
            THEN /\ jobs' = [jobs EXCEPT ![j].predictions = predictions, ![j].left = @ - 1]
                 /\ UNCHANGED panel
          ELSE /\ panel' = [panel EXCEPT !.forecasts = predictions]
               /\ jobs' = [jobs EXCEPT ![j] = NoJob]
  /\ UNCHANGED <<browser, presses, datasetVars>>

\* ------------------------------------------------------------------ the controls
\* <button onClick={handleTrain} disabled={isTraining}>, and likewise Load and Upload
TrainDisabled == panel.isTraining
\* variant: the Load button stays enabled during a training
LoadNeverDisabled == FALSE
LoadDisabled == panel.isTraining
UploadDisabled == panel.isTraining
\* disabled={isTraining || !model}
DeleteDisabled == panel.isTraining \/ panel.model = null
DownloadDisabled == panel.isTraining \/ panel.model = null
\* {model && !isTraining && (<div className="forecast-controls">...)}
ForecastControlsShown == panel.model # null /\ ~panel.isTraining

ClickTrain == ~TrainDisabled /\ \E enough \in BOOLEAN : HandleTrain(enough)
ClickLoad == ~LoadDisabled /\ HandleLoadModel
ClickUpload == ~UploadDisabled /\ \E file \in ModelFiles : HandleUploadModel(file)
ClickDelete == ~DeleteDisabled /\ \E confirmed \in BOOLEAN : HandleDeleteModel(confirmed)
ClickDownload == ~DownloadDisabled /\ \E ok \in BOOLEAN : HandleDownloadModel(ok)
ClickForecast == ForecastControlsShown /\ HandleForecast
TypeForecastYears == ForecastControlsShown /\ \E v \in ForecastYearInputs : SetForecastYears(v)

NextForecast ==
  \/ ClickTrain
  \/ ClickLoad
  \/ ClickUpload
  \/ ClickDelete
  \/ ClickDownload
  \/ ClickForecast
  \/ TypeForecastYears
  \/ \E j \in JobIds : OnEpochEnd(j)
  \/ \E j \in JobIds : TrainingStep(j)
  \/ \E j \in JobIds : LoadLSTMModel(j)
  \/ \E j \in JobIds : HandleLoadModelLoaded(j)
  \/ \E j \in JobIds : DeleteLSTMModel(j)
  \/ \E j \in JobIds : HandleDeleteModelRemoved(j)
  \/ \E j \in JobIds : UploadLSTMModelFromJSON(j)
  \/ \E j \in JobIds : HandleUploadModelRestored(j)
  \/ \E j \in JobIds : ForecastPredicted(j)

SpecForecast == Init /\ [][NextForecast]_vars

\* model.fit, predict and save run on the browser's scheduler and settle: a
\* training that can take its next step eventually takes it
SpecForecastFair == SpecForecast /\ WF_vars(\E j \in JobIds : TrainingStep(j))


\* ================================================================== claims
\* helpers to recognise steps without naming the actions
Last(seq) == seq[Len(seq)]
UserEventStep(p, handlers) ==
  /\ Len(trail'[p]) = Len(trail[p]) + 1
  /\ Last(trail'[p])[1] \in handlers
\* the continuation of task t ran: it left the pc it was waiting in
Resumed(t, kind, pc) ==
  /\ tasks[t].kind = kind
  /\ tasks[t].pc = pc
  /\ tasks'[t] # tasks[t]
\* successful store writes task t has made so far
Writes(t) ==
  IF tasks[t].kind = "csv" THEN Len(tasks[t].made)
  ELSE IF tasks[t].kind \in {"add", "save", "delete"}
          /\ (tasks[t].pc \in {"fetch", "fetched"} \/ (tasks[t].pc = "written" /\ tasks[t].ok))
    THEN 1
  ELSE 0

\* C1 (as claimed): a handler that has written to the store ends only after the
\* re-fetch it issued has returned, so every write is followed by a reload.
C1_EveryWriteRefetched ==
  [][\A t \in TaskIds :
       (Writes(t) >= 1 /\ tasks'[t] = Idle) => tasks[t].pc = "fetched"]_vars

\* C2: the k-th insert of an import is issued only when the k-1 earlier ones have
\* completed at the store, it carries the k-th accepted row of the file, and the
\* store gives the rows increasing ids in file order.
C2_SequentialInFileOrder ==
  [][\A t \in TaskIds :
       LET old == tasks[t]
           new == tasks'[t]
           records == RecordsFromRows(new.file.data)
       IN (new.kind = "csv") =>
            /\ (new.pc = "write" /\ old.pc # "write") =>
                  /\ old.pc \in {"parse", "written"}
                  /\ Len(new.made) < Len(records)
                  /\ new.rec = records[Len(new.made) + 1]
            /\ (Len(new.made) = Len(old.made) + 1) =>
                  /\ old.pc = "write"
                  /\ Last(new.made) \in DOMAIN store'
                  /\ Last(new.made) \notin DOMAIN store
                  /\ store'[Last(new.made)] = records[Len(new.made)]
                  /\ \A i \in 1..Len(old.made) : old.made[i] < Last(new.made)
            /\ Len(new.made) \in {Len(old.made), Len(old.made) + 1}]_vars

C2_Witness ==
  \E t \in TaskIds : /\ tasks[t].kind = "csv"
                     /\ Len(tasks[t].made) = 2
                     /\ tasks[t].file.data = <<Row1, RowNoYear, Row2>>

\* C3: an import whose parse reported errors never issues an insert: it stays in
\* the parse step until it ends there with the parse error message, and the
\* step that ends it leaves the store alone.
C3_ParseErrorAborts ==
  [][\A t \in TaskIds :
       (tasks[t].kind = "csv" /\ tasks[t].file.errors) =>
          /\ tasks[t].pc = "parse"
          /\ tasks[t].made = <<>>
          /\ (tasks'[t] # tasks[t]) =>
                /\ tasks'[t] = Idle
                /\ store' = store
                /\ nextId' = nextId
                /\ message'[tasks[t].page] = Msg("Error parsing CSV file", "error")]_vars

C3_Witness ==
  /\ message[1] = Msg("Error parsing CSV file", "error")
  /\ store = InitialStore
  /\ \A t \in TaskIds : tasks[t] = Idle

\* C4: when the insert of the k-th accepted row fails, the import ends at once:
\* the store keeps what it holds (the k-1 rows already inserted are not rolled
\* back), no further insert is issued, and the error message is shown, not the
\* success count.
C4_FailedInsertStops ==
  [][\A t \in TaskIds :
       (Resumed(t, "csv", "written") /\ ~tasks[t].ok) =>
          /\ tasks'[t] = Idle
          /\ store' = store
          /\ \A i \in 1..Len(tasks[t].made) :
               tasks[t].made[i] \in DOMAIN store => tasks[t].made[i] \in DOMAIN store'
          /\ message'[tasks[t].page] = Msg("Error processing CSV data", "error")]_vars

C4_Witness ==
  /\ message[1] = Msg("Error processing CSV data", "error")
  /\ nextId = 4
  /\ 3 \in DOMAIN store
  /\ store[3] = RecordFromRow(Row1)
  /\ \A t \in TaskIds : tasks[t] = Idle


\* C5 (as claimed): when the delete handler completes, no row is in edit mode.
C5_DeleteResetsEditing ==
  [][\A t \in TaskIds :
       (tasks[t].kind = "delete" /\ tasks'[t] = Idle) =>
          editingId'[tasks[t].page] = NoId]_vars

\* C5 (amended): no step of the delete handler (the click, the continuation
\* after the store delete, the continuation after the reload) changes editingId
\* or the edit form: a row in edit mode when Delete was clicked is still the
\* editing row when the handler completes.
C5_DeleteKeepsEditing ==
  [][\A p \in Pages, t \in TaskIds :
       (UserEventStep(p, {"delete", "declined"})
          \/ (tasks[t].kind = "delete" /\ tasks[t].page = p /\ tasks'[t] # tasks[t])) =>
         /\ editingId'[p] = editingId[p]
         /\ editForm'[p] = editForm[p]]_vars

\* row 1 was put in edit mode, then Delete of row 2 was confirmed and has
\* completed with its reload
C5_Witness ==
  /\ trail[1] = <<<<"edit", "1">>, <<"delete", "2">>>>
  /\ message[1] = Msg("Record deleted successfully!", "success")
  /\ \A t \in TaskIds : tasks[t] = Idle
  /\ DOMAIN emigrants[1] = {1}
  /\ RowInEditMode(1, 1)

\* C6: the continuation of Save after the store update. On success editingId is
\* null, the edit form is {} and fetchData has been called (loading set, the
\* fetch in flight); on failure editingId and the edit form are as they were, no
\* fetch is issued, the handler ends and an error message is shown.
C6_SaveOutcome ==
  [][\A t \in TaskIds :
       Resumed(t, "save", "written") =>
         LET p == tasks[t].page IN
         IF tasks[t].ok
           THEN /\ editingId'[p] = NoId
                /\ editForm'[p] = EmptyForm
                /\ tasks'[t].pc = "fetch"
                /\ loading'[p]
           ELSE /\ editingId'[p] = editingId[p]
                /\ editForm'[p] = editForm[p]
                /\ tasks'[t] = Idle
                /\ loading'[p] = loading[p]
                /\ emigrants'[p] = emigrants[p]
                /\ message'[p].type = "error"
                /\ message'[p].text # ""]_vars

\* a Save of row 1 failed at the store and the row is still in edit mode with
\* the text the user typed
C6_Witness ==
  /\ trail[1] = <<<<"edit", "1">>, <<"editChange", "married">>, <<"save", "1">>>>
  /\ message[1] = Msg("Error updating record", "error")
  /\ RowInEditMode(1, 1)
  /\ editForm[1]["married"] = "60"
  /\ store = InitialStore
  /\ \A t \in TaskIds : tasks[t] = Idle

\* C7: at most one row is rendered in edit mode; an Edit click on row B makes B
\* the editing row whatever row was editing, seeds every field of the edit form
\* with B's value (a missing or zero value as the empty text), and issues no
\* store call and changes neither the store nor the list.
C7_SingleEditingRow ==
  [][/\ \A p \in Pages : Cardinality(EditingRows(p)) <= 1
     /\ \A p \in Pages :
          UserEventStep(p, {"edit"}) =>
            LET b == editingId'[p] IN
            /\ String(b) = Last(trail'[p])[2]
            /\ b \in DOMAIN emigrants[p]
            /\ EditingRows(p)' = {b}
            /\ DOMAIN editForm'[p] = allFormFields
            /\ \A f \in allFormFields :
                 /\ Number(editForm'[p][f]) = ValueOrZero(emigrants[p][b], f)
                 /\ (editForm'[p][f] = "") = (ValueOrZero(emigrants[p][b], f) = 0)
            /\ store' = store
            /\ nextId' = nextId
            /\ tasks' = tasks
            /\ emigrants' = emigrants]_vars

\* Edit on row 2 was clicked while row 1 was in edit mode with a changed form
C7_Witness ==
  /\ trail[1] = <<<<"edit", "1">>, <<"editChange", "married">>, <<"edit", "2">>>>
  /\ RowInEditMode(1, 2)
  /\ editForm[1] = [year |-> "2020", single |-> "80", married |-> "", notReported |-> ""]
  /\ store = InitialStore

\* C9: Edit, every form change and Cancel are local: none issues a store call or
\* changes the store or the in-memory list, and Cancel resets editingId and the
\* edit form and nothing else of the page.
C9_EditCancelIsLocal ==
  [][\A p \in Pages :
       /\ UserEventStep(p, {"edit", "editChange", "cancel"}) =>
            /\ store' = store
            /\ nextId' = nextId
            /\ tasks' = tasks
            /\ emigrants' = emigrants
            /\ <<form, csvFileName, message, loading, timers>>'
                 = <<form, csvFileName, message, loading, timers>>
       /\ UserEventStep(p, {"cancel"}) =>
            /\ editingId'[p] = NoId
            /\ editForm'[p] = EmptyForm]_vars

\* row 1 was edited, its form changed, and the edit cancelled
C9_Witness ==
  /\ trail[1] = <<<<"edit", "1">>, <<"editChange", "married">>, <<"cancel", "">>>>
  /\ editingId[1] = NoId
  /\ editForm[1] = EmptyForm
  /\ store = InitialStore
  /\ emigrants[1] = InitialStore


\* the Save request of task t reached the store and was applied
SaveLanded(t) ==
  /\ tasks[t].kind = "save"
  /\ tasks[t].pc = "write"
  /\ tasks'[t].pc = "written"
  /\ tasks'[t].ok

\* C8: every Save sends the complete field set of its edit form (year and every
\* category, as numbers); the store applies a Save to an existing document
\* whatever the document holds at that moment (no conflict check), and
\* afterwards the document equals the field set of that Save in every field,
\* also in fields only another editor had changed.
C8_LastWriteWins ==
  [][/\ \A p \in Pages :
          UserEventStep(p, {"save"}) =>
            \E t \in TaskIds :
              /\ tasks[t] = Idle
              /\ tasks'[t].kind = "save" /\ tasks'[t].page = p /\ tasks'[t].pc = "write"
              /\ tasks'[t].id = editingId[p]
              /\ DOMAIN tasks'[t].rec = allFormFields
              /\ \A f \in allFormFields : tasks'[t].rec[f] = Number(editForm[p][f])
     /\ \A t \in TaskIds :
          /\ (tasks[t].kind = "save" /\ tasks[t].pc = "write") =>
                (tasks[t].id \in DOMAIN store => ENABLED (UpdateDoc(t) /\ tasks'[t].ok))
          /\ SaveLanded(t) =>
               \A f \in allFormFields :
                 /\ Has(tasks[t].rec, f)
                 /\ store'[tasks[t].id][f] = tasks[t].rec[f]]_vars

\* both tabs loaded record 1; tab 1 cleared `single` and saved, then tab 2, which
\* had changed only `married`, saved: the record has tab 2's `single` again
C8_Witness ==
  /\ trail[1] = <<<<"edit", "1">>, <<"editChange", "single">>, <<"save", "1">>>>
  /\ trail[2] = <<<<"edit", "1">>, <<"editChange", "married">>, <<"save", "1">>>>
  /\ \A t \in TaskIds : tasks[t] = Idle
  /\ message[1] = Msg("Record updated successfully!", "success")
  /\ message[2] = Msg("Record updated successfully!", "success")
  /\ store[1] = [year |-> 2019, single |-> 100, married |-> 60, notReported |-> 0]
  /\ emigrants[1][1] = [year |-> 2019, single |-> 0, married |-> 50, notReported |-> 0]

\* a session that was: Edit of row i, one change of category f, Save
OneFieldTrail(tr, i, f) ==
  tr = <<<<"edit", String(i)>>, <<"editChange", f>>, <<"save", String(i)>>>>
OneFieldSession(p, i, f) == OneFieldTrail(trail[p], i, f)

\* C10 (as claimed): the record a one-field edit session persists differs from
\* the record stored just before in that field only.
C10_DiffersFromStoredInOneField ==
  [][\A t \in TaskIds, f \in civilStatusFields :
       (SaveLanded(t) /\ OneFieldSession(tasks[t].page, tasks[t].id, f)) =>
          \A g \in allFormFields \ {f} :
            store'[tasks[t].id][g] = ValueOrZero(store[tasks[t].id], g)]_vars

\* C10 (amended): the record a one-field edit session sends and persists differs
\* in that field only from the record the page had in memory when Edit was
\* clicked (a missing category counting as 0), so from the stored record when
\* that still equals the loaded one; a successful reload then replaces the
\* in-memory list by the collection as the store read it.
C10_DiffersFromLoadedInOneField ==
  [][\A t \in TaskIds :
       LET p == tasks'[t].page
           i == tasks'[t].id
       IN /\ \A f \in civilStatusFields :
               (tasks'[t].kind = "save" /\ OneFieldTrail(trail'[p], i, f)) =>
                  /\ DOMAIN tasks'[t].rec = allFormFields
                  /\ \A g \in allFormFields \ {f} :
                       tasks'[t].rec[g] = ValueOrZero(emigrants[p][i], g)
                  /\ tasks'[t].rec[f] = Number(Last(EditTextsOf(f)))
                  /\ SaveLanded(t) =>
                       /\ \A g \in allFormFields : store'[i][g] = tasks[t].rec[g]
                       /\ (\A g \in allFormFields :
                             ValueOrZero(store[i], g) = ValueOrZero(emigrants[p][i], g))
                          => \A g \in allFormFields \ {f} :
                               store'[i][g] = ValueOrZero(store[i], g)
          /\ (tasks[t].pc = "fetch" /\ tasks'[t].pc = "fetched" /\ tasks'[t].ok) =>
               tasks'[t].snap = store
          /\ (Resumed(t, "save", "fetched") /\ tasks[t].ok) =>
               emigrants'[tasks[t].page] = tasks[t].snap]_vars

\* page 1 changed `married` of record 1 from 50 to 60 and saved; the reload shows it
C10_Witness ==
  /\ OneFieldSession(1, 1, "married")
  /\ trail[2] = <<>>
  /\ \A t \in TaskIds : tasks[t] = Idle
  /\ message[1] = Msg("Record updated successfully!", "success")
  /\ store[1] = [year |-> 2019, single |-> 100, married |-> 60, notReported |-> 0]
  /\ emigrants[1][1] = store[1]


\* C11: a delete request exists only after a confirmed Delete click. A declined
\* confirmation changes nothing (no store call, no reload, page and store as
\* they were); a confirmed one puts the store delete of that row in flight; and
\* when the store delete succeeded the handler goes on to the reload, whose
\* successful result replaces the in-memory list.
C11_DeleteNeedsConfirmation ==
  [][/\ \A p \in Pages :
          /\ UserEventStep(p, {"declined"}) =>
                /\ tasks' = tasks
                /\ store' = store
                /\ nextId' = nextId
                /\ pageVars' = pageVars
          /\ UserEventStep(p, {"delete"}) =>
                \E t \in TaskIds :
                  /\ tasks[t] = Idle
                  /\ tasks'[t].kind = "delete" /\ tasks'[t].page = p
                  /\ tasks'[t].pc = "write"
                  /\ String(tasks'[t].id) = Last(trail'[p])[2]
                  /\ store' = store
     /\ \A t \in TaskIds :
          /\ (tasks'[t].kind = "delete" /\ tasks[t].kind # "delete") =>
                UserEventStep(tasks'[t].page, {"delete"})
          /\ (Resumed(t, "delete", "written") /\ tasks[t].ok) =>
                /\ tasks'[t].pc = "fetch"
                /\ loading'[tasks[t].page]
          /\ (Resumed(t, "delete", "fetched") /\ tasks[t].ok) =>
                emigrants'[tasks[t].page] = tasks[t].snap]_vars

\* Delete of row 1 was declined, then clicked again and confirmed, and the
\* reload has shown the list without row 1
C11_Witness ==
  /\ trail[1] = <<<<"declined", "1">>, <<"delete", "1">>>>
  /\ \A t \in TaskIds : tasks[t] = Idle
  /\ message[1] = Msg("Record deleted successfully!", "success")
  /\ DOMAIN store = {2}
  /\ emigrants[1] = store


\* C12: the store accepts a delete of an id it does not hold and is left as it
\* was; the handler then reloads as after any successful delete, the reload
\* reads the collection as it is at that moment, and its result becomes the
\* in-memory list: the deleted id is no longer listed, and the list equals the
\* store when nothing was written since the read.
C12_DeleteOfMissingIdReloads ==
  [][\A t \in TaskIds :
       LET p == tasks[t].page
           id == tasks[t].id
       IN /\ (tasks[t].kind = "delete" /\ tasks[t].pc = "write" /\ id \notin DOMAIN store) =>
               /\ ENABLED (DeleteDoc(t) /\ tasks'[t].ok)
               /\ (tasks'[t].pc = "written" /\ tasks'[t].ok) => store' = store
          /\ (Resumed(t, "delete", "written") /\ tasks[t].ok) => tasks'[t].pc = "fetch"
          /\ (tasks[t].kind = "delete" /\ tasks[t].pc = "fetch"
                /\ tasks'[t].pc = "fetched" /\ tasks'[t].ok) => tasks'[t].snap = store
          /\ (Resumed(t, "delete", "fetched") /\ tasks[t].ok) =>
               /\ emigrants'[p] = tasks[t].snap
               /\ id \notin DOMAIN emigrants'[p]
               /\ (tasks[t].snap = store) => emigrants'[p] = store']_vars

\* both clients had row 1 listed and both confirmed its Delete: the second
\* delete found the id gone, and both clients reloaded and show the store
C12_Witness ==
  /\ trail[1] = <<<<"delete", "1">>>>
  /\ trail[2] = <<<<"delete", "1">>>>
  /\ \A t \in TaskIds : tasks[t] = Idle
  /\ message[1] = Msg("Record deleted successfully!", "success")
  /\ message[2] = Msg("Record deleted successfully!", "success")
  /\ DOMAIN store = {2}
  /\ emigrants[1] = store
  /\ emigrants[2] = store


\* C13 (as claimed): an Add click while the add form's year is empty issues no
\* store call and no reload, keeps the add form, and shows an error message.
C13_EmptyYearAddShowsError ==
  [][\A p \in Pages :
       (UserEventStep(p, {"add", "addDisabled"}) /\ form[p]["year"] = "") =>
          /\ tasks' = tasks
          /\ store' = store
          /\ nextId' = nextId
          /\ form'[p] = form[p]
          /\ message'[p].type = "error"
          /\ message'[p].text # ""]_vars


\* the import of task t has just produced its records from the parsed rows
RowsConverted(t) ==
  /\ tasks[t].kind = "csv"
  /\ tasks[t].pc = "parse"
  /\ tasks'[t].kind = "csv"
  /\ tasks'[t].pc # "parse"

\* a row with a non-empty numeric year under one of the headers year, Year, YEAR
HasNumericYear(row) ==
  \E h \in {"year", "Year", "YEAR"} : Cell(row, h) # "" /\ Number(Cell(row, h)) # NaN

\* C14 (as claimed): the records an import produces are those of the rows with
\* a non-empty numeric year under year, Year or YEAR, one record per such row.
C14_AcceptsYearVariants ==
  [][\A t \in TaskIds :
       RowsConverted(t) =>
         Len(tasks'[t].rows) = Len(SelectSeq(tasks[t].file.data, HasNumericYear))]_vars


\* the lower-cased (and whitespace-collapsed) variant of a category name
LowerCased(f) == IF f = "notReported" THEN "notreported" ELSE f

\* row fills category f under no header other than the canonical and the lower-cased one
OnlyCanonical(row, f) ==
  \A h \in {Capitalized(f), Spaced(f)} \ {f, LowerCased(f)} : Cell(row, h) = ""

\* Number(text) || 0
NumberOrZeroOf(text) == IF Number(text) = NaN THEN 0 ELSE Number(text)

\* C15 (as claimed): in every accepted row and for every category, the cell
\* under the canonical header, or when that is empty the cell under the
\* lower-cased header, is the one converted into the record (rows that fill
\* the category under yet another header set aside).
C15_LowerCasedHeaderResolved ==
  [][\A t \in TaskIds :
       RowsConverted(t) =>
         LET accepted == SelectSeq(tasks[t].file.data, ValidRow) IN
         \A k \in 1..Len(accepted), f \in civilStatusFields :
           LET row == accepted[k]
               text == IF Cell(row, f) # "" THEN Cell(row, f) ELSE Cell(row, LowerCased(f))
           IN OnlyCanonical(row, f) =>
                 /\ k <= Len(tasks'[t].rows)
                 /\ tasks'[t].rows[k][f] = NumberOrZeroOf(text)]_vars


\* C16: in every record an import produces, a category whose cell is missing,
\* empty or not a number is 0 and a category whose cell is a number is that
\* number, a negative one included (categories filled under a variant header
\* set aside); the year is the number of the year cell; and the store holds
\* each inserted record exactly as produced.
C16_ImportCoercion ==
  [][\A t \in TaskIds :
       /\ RowsConverted(t) =>
            LET accepted == SelectSeq(tasks[t].file.data, ValidRow) IN
            /\ Len(tasks'[t].rows) = Len(accepted)
            /\ \A k \in 1..Len(accepted) :
                 LET row == accepted[k]
                     record == tasks'[t].rows[k]
                 IN /\ DOMAIN record = allFormFields
                    /\ String(record["year"]) = row["year"]
                    /\ \A f \in civilStatusFields :
                         (OnlyCanonical(row, f) /\ Cell(row, LowerCased(f)) = Cell(row, f)) =>
                            IF Cell(row, f) \in NumTexts
                              THEN String(record[f]) = Cell(row, f)
                              ELSE record[f] = 0
       /\ (tasks[t].kind = "csv" /\ Len(tasks'[t].made) = Len(tasks[t].made) + 1) =>
            /\ tasks[t].rec = tasks[t].rows[Len(tasks'[t].made)]
            /\ store'[Last(tasks'[t].made)] = tasks[t].rec]_vars

\* the file with a negative count and a row of empty cells was imported: the
\* store holds -5 as read, and 0 for the empty and the missing cells
C16_Witness ==
  /\ \A t \in TaskIds : tasks[t] = Idle
  /\ DOMAIN store = 1..4
  /\ store[3] = [year |-> 2019, single |-> 80, married |-> 0, notReported |-> 0]
  /\ store[4] = [year |-> 0, single |-> -5, married |-> 0, notReported |-> 0]
  /\ emigrants[1] = store


\* C17 (as claimed): every category total of the chart is the sum over the
\* selected records of the values with the negative ones counted as 0, and is
\* never negative.
C17_TotalsClampNegatives ==
  \A p \in Pages, f \in civilStatusFields :
    /\ Totals(p)[f] = SumFieldClamped(FilteredRecords(p), f)
    /\ Totals(p)[f] >= 0


\* the year values present in the in-memory records of page p
YearsPresent(p) ==
  {emigrants[p][id]["year"] : id \in {i \in DOMAIN emigrants[p] : Has(emigrants[p][i], "year")}}

\* the elements of a list
Elements(list) == {list[i] : i \in 1..Len(list)}

SelectedIds(p) ==
  {id \in DOMAIN emigrants[p] :
     \/ selectedYear[p] = "All"
     \/ /\ Has(emigrants[p][id], "year")
        /\ String(emigrants[p][id]["year"]) = selectedYear[p]}

\* the value of category f in record r, a missing one counting as 0
CategoryValue(r, f) == IF Has(r, f) /\ r[f] \in NumVals THEN r[f] ELSE 0

RECURSIVE SumByValue(_, _, _)
\* the sum of category f over the selected records of page p, taken value by
\* value: each value in vals times the number of selected records holding it
SumByValue(vals, p, f) ==
  IF vals = {} THEN 0
  ELSE LET v == CHOOSE x \in vals : TRUE
           holders == {id \in SelectedIds(p) : CategoryValue(emigrants[p][id], f) = v}
       IN v * Cardinality(holders) + SumByValue(vals \ {v}, p, f)

C20_TrailingCellFilePersistsTwo ==
  [][\A t \in TaskIds :
       (/\ tasks[t].kind = "csv"
        /\ tasks[t].file = CsvText(TrailingCellLines)
        /\ tasks'[t] = Idle) =>
          /\ tasks[t].pc = "fetched"
          /\ Len(tasks[t].made) = 2
          /\ store'[tasks[t].made[1]] =
                [year |-> 2019, single |-> 100, married |-> 50, notReported |-> 0]
          /\ store'[tasks[t].made[2]] =
                [year |-> 2020, single |-> 80, married |-> 0, notReported |-> 0]]_vars


FailureEnds(t) ==
  /\ tasks[t].kind # "idle"
  /\ tasks'[t] = Idle
  /\ \/ ~tasks[t].ok
     \/ /\ tasks[t].kind = "csv" /\ tasks[t].pc = "parse"
        /\ (~tasks[t].file.readable \/ tasks[t].file.errors)

\* the bounds of the model leave room for one more user event, task and timer
Room(p) ==
  /\ mounted[p]
  /\ Len(trail[p]) < MaxClicks
  /\ HasFreeTask
  /\ timers[p] < MaxTimers

\* every control of page p answers: Edit and Delete on the rows in view mode,
\* Save and Cancel on the row in edit mode, Add when a year is typed, Upload
\* and the year selector
Interactive(p) ==
  /\ \A id \in DOMAIN emigrants[p] :
       IF RowInEditMode(p, id)
         THEN ENABLED HandleSave(p, id) /\ ENABLED HandleCancel(p)
         ELSE ENABLED HandleEdit(p, id) /\ ENABLED HandleDelete(p, id, TRUE)
  /\ (~AddDisabled(p) /\ nextId + PendingInserts <= MaxDocs) => ENABLED HandleAdd(p)
  /\ \A file \in Files :
       nextId + PendingInserts + InsertsOf(file) <= MaxDocs + 1 =>
         ENABLED HandleCSVUpload(p, file)
  /\ \A y \in YearOptions(p) \ {selectedYear[p]} : ENABLED HandleYearSelect(p, y)

\* C22: no failure leaves the page stuck. When a failed fetch, add, save, delete
\* or import ends, the loading flag is false as soon as no fetch is in flight
\* (at once when the failure is that of a fetch), the CSV file name is empty as
\* soon as no import is in flight (at once when the failure is that of an
\* import), the Add button is as enabled as it was, and while the error message
\* is shown every control still answers.
C22_NoFailureLeavesPageStuck ==
  [][\A p \in Pages :
       /\ \A t \in TaskIds :
            (FailureEnds(t) /\ tasks[t].page = p) =>
               /\ (\/ tasks[t].pc = "fetched"
                   \/ \A u \in TaskIds : tasks'[u].page = p =>
                                            tasks'[u].pc \notin {"fetch", "fetched"})
                     => ~loading'[p]
               /\ (\/ tasks[t].kind = "csv"
                   \/ \A u \in TaskIds : tasks'[u].page = p => tasks'[u].kind # "csv")
                     => csvFileName'[p] = ""
               /\ (form'[p]["year"] = "") = (form[p]["year"] = "")
       /\ (message[p].type = "error" /\ Room(p)) => Interactive(p)]_vars

\* the reload of a page failed and nothing is in flight: the error is shown,
\* the loading flag is down and the controls answer
C22_Witness ==
  /\ message[1] = Msg("Error fetching data", "error")
  /\ \A t \in TaskIds : tasks[t] = Idle
  /\ ~loading[1]
  /\ csvFileName[1] = ""
  /\ DOMAIN emigrants[1] # {}
  /\ Room(1) /\ Interactive(1)


\* C23 (as claimed): a message is taken down only by the timer its own
\* showMessage call started. All timers run the same 3000 ms, so they fire in
\* the order they were started and the timer of the message on display is the
\* last one pending: when a message is cleared, no timer is left.
C23_MessageClearedByOwnTimer ==
  [][\A p \in Pages :
       (message[p] # NoMessage /\ message'[p] = NoMessage) => timers'[p] = 0]_vars


\* C24: once a training has started it runs to its end and nothing else can be
\* started meanwhile: while isTraining is true no user event of the panel is
\* taken (no second training, load, upload, delete, download or forecast) and no
\* new handler starts; isTraining goes back to false only in the step in which
\* the training handler ends; and it does go back to false, whether the
\* training succeeds or throws.
C24_TrainingRunsToCompletion ==
  /\ [][panel.isTraining =>
          /\ presses' = presses
          /\ \A j \in JobIds : jobs[j].kind = "idle" => jobs'[j].kind = "idle"
          /\ ~panel'.isTraining =>
                \E j \in JobIds : jobs[j].kind = "train" /\ jobs'[j] = NoJob]_vars
  /\ (panel.isTraining ~> ~panel.isTraining)

\* a training is saving its model while the panel holds an uploaded model and
\* the model's bounds leave room for another user event and another handler
C24_Witness ==
  /\ panel.isTraining
  /\ \E j \in JobIds : jobs[j].kind = "train" /\ jobs[j].pc = "save"
  /\ panel.model = FileModel
  /\ Len(presses) < MaxPresses
  /\ HasFreeJob


\* C25: a forecast is started only from a panel that holds both a model and
\* its metadata, which it holds only after a train, load or upload; the
\* forecasts shown are replaced by new entries only by such a handler, with
\* the model it started from; and a Generate Forecast click on a panel whose
\* model or metadata is missing changes nothing: no handler starts and the
\* forecasts list stays as it is.
C25_ForecastNeedsModelAndMetadata ==
  [][/\ \A j \in JobIds :
          (jobs[j].kind # "forecast" /\ jobs'[j].kind = "forecast") =>
             /\ panel.model # null /\ panel.metadata # null
             /\ jobs'[j].model = panel.model /\ jobs'[j].metadata = panel.metadata
     /\ (panel.model # null /\ panel.metadata # null) =>
          \E i \in 1..Len(presses) : presses[i] \in {"train", "load", "upload"}
     /\ (panel'.forecasts # panel.forecasts /\ panel'.forecasts # <<>>) =>
          \E j \in JobIds :
            /\ jobs[j].kind = "forecast" /\ jobs'[j] = NoJob
            /\ jobs[j].model # null /\ jobs[j].metadata # null
            /\ \A i \in 1..Len(panel'.forecasts) : panel'.forecasts[i].model = jobs[j].model
     /\ (/\ presses' = Append(presses, "forecast")
         /\ (panel.model = null \/ panel.metadata = null)) =>
          /\ panel' = panel
          /\ jobs' = jobs
          /\ browser' = browser]_vars

\* Generate Forecast was clicked on a panel that had loaded a model saved
\* without metadata: nothing started and no forecast is shown
C25_Witness ==
  /\ presses = <<"train", "load", "forecast">>
  /\ panel.model # null
  /\ panel.metadata = null
  /\ panel.forecasts = <<>>
  /\ \A j \in JobIds : jobs[j] = NoJob


\* C30 (as claimed): an upload that fails (a file JSON.parse rejects, or one
\* without the architecture or the weights, or whose model cannot be rebuilt)
\* leaves what the browser keeps as it was: the saved model and the metadata
\* under 'lstm-metadata' are unchanged, so metadata that described the saved
\* model still does.
C30_FailedUploadKeepsSavedState ==
  [][\A j \in JobIds :
       (/\ jobs[j].kind = "upload" /\ jobs[j].pc = "read"
        /\ jobs'[j].pc = "restored" /\ ~jobs'[j].ok) =>
          /\ browser' = browser
          /\ browser.metadata = browser.model => browser'.metadata = browser'.model]_vars


\* C26 (as claimed): with one page and no other writer, when the result of a
\* reload is applied and no handler or fetch is left in flight, the in-memory
\* list equals the store: of two overlapping reloads the one that read the
\* store last decides the list, whichever resolves last.
C26_QuiescentListEqualsStore ==
  [][\A t \in TaskIds :
       (/\ tasks[t].pc = "fetched" /\ tasks[t].ok
        /\ \A u \in TaskIds : tasks'[u] = Idle) =>
          emigrants'[tasks[t].page] = store']_vars

\* C27: the edit session on a row is ended only by a Save or a Cancel of that
\* row; when the store update of a Save of row A completes while another row B
\* is the editing row, the completion leaves editingId and B's edit form as
\* they are.
C27_SaveEndsOnlyItsOwnSession ==
  [][\A t \in TaskIds :
       (/\ Resumed(t, "save", "written")
        /\ editingId[tasks[t].page] # NoId
        /\ editingId[tasks[t].page] # tasks[t].id) =>
          /\ editingId'[tasks[t].page] = editingId[tasks[t].page]
          /\ editForm'[tasks[t].page] = editForm[tasks[t].page]]_vars

RECURSIVE SumOverYears(_, _, _)
\* the sum, over the years of a year list, of the total of category f that the
\* chart of page p shows when that year is the selected one
SumOverYears(list, p, f) ==
  IF list = <<>> THEN 0
  ELSE SumField(SelectSeq(Records(p), LAMBDA r : YearMatches(r, String(Head(list)))), f)
       + SumOverYears(Tail(list), p, f)

\* C28: every record that contributes to the "All" totals can be reached
\* through the year selector: for every category, the per-year totals of the
\* years in the year list add up to the "All" total.
C28_YearTotalsAddUpToAll ==
  \A p \in Pages : \A f \in civilStatusFields :
    SumOverYears(Years(p), p, f) = SumField(Records(p), f)

\* no in-memory record of page p holds a negative value in a category
NoNegativeValue(p) ==
  \A id \in DOMAIN emigrants[p] : \A f \in civilStatusFields :
    ValueOrZero(emigrants[p][id], f) >= 0

RECURSIVE SumOverAllByValue(_, _, _)
\* the sum of category f over every in-memory record of page p, taken value by
\* value: each value in vals times the number of records holding it
SumOverAllByValue(vals, p, f) ==
  IF vals = {} THEN 0
  ELSE LET v == CHOOSE x \in vals : TRUE
           holders == {id \in DOMAIN emigrants[p] : CategoryValue(emigrants[p][id], f) = v}
       IN v * Cardinality(holders) + SumOverAllByValue(vals \ {v}, p, f)

\* C29: the summary cards total all in-memory records: whatever the selector
\* shows, the summary total of a category is the sum of that category over
\* every in-memory record; a change of the selected year leaves the records,
\* and so every summary total, as they were; and while the selector shows "All"
\* and no value is negative the summary total of each category is its chart
\* total (the bar, density and map totals, and the treemap's clamped totals)
\* and the grand total is the chart's grand total.
C29_SummaryTotalsOverAllRecords ==
  /\ [][\A p \in Pages :
          UserEventStep(p, {"selectYear"}) =>
            /\ selectedYear'[p] # selectedYear[p]
            /\ emigrants'[p] = emigrants[p]]_vars
  /\ [](\A p \in Pages :
          /\ \A f \in civilStatusFields :
               SummaryTotals(p)[f] = SumOverAllByValue(NumVals, p, f)
          /\ (selectedYear[p] = "All" /\ NoNegativeValue(p)) =>
               /\ SummaryTotals(p) = Totals(p)
               /\ SummaryTotals(p) = RawTotals(p)
               /\ SummaryGrandTotal(p) = TotalEmigrants(p))

\* the year 2019 has just been selected on a list holding an imported record
\* besides the two of the collection: the chart totals one year, the summary
\* cards all three records
C29_Witness ==
  /\ trail[1] # <<>>
  /\ Last(trail[1]) = <<"selectYear", "2019">>
  /\ selectedYear[1] = "2019"
  /\ DOMAIN emigrants[1] = 1..3
  /\ Totals(1)["single"] < SummaryTotals(1)["single"]
  /\ SummaryGrandTotal(1) > TotalEmigrants(1)
====
